---- MODULE Spec2Model ----
(***************************************************************************)
(* Model of the PROXY protocol client layer (src/proxy/pp/client/layer.rs) *)
(* and of the User-Agent classifier layer (rama-http/src/layer/ua.rs).     *)
(*                                                                         *)
(* Bytes are naturals in 0..255.  An Option<T> is a sequence of length 0   *)
(* (None) or 1 (Some).  A socket address is [ip, port], an IP address is   *)
(* [fam, parts]: 4 octets for "V4", 8 sixteen-bit segments for "V6".       *)
(***************************************************************************)
EXTENDS Integers, Sequences, FiniteSets, TLC

\* ------------------------------------------------------------------ bounds
\* longest payload a layer is configured with
MaxPayloadLen == 2
\* writes the caller performs on a connection it got back from serve
MaxAppWrites == 1

\* ----------------------------------------------------------------- options
None == << >>
Some(x) == << x >>
IsSome(o) == o # << >>
Unwrap(o) == o[1]

\* -------------------------------------------------------------- addresses
IpV4(a, b, c, d) == [fam |-> "V4", parts |-> << a, b, c, d >>]
IpV6(s) == [fam |-> "V6", parts |-> s]
Sock(ip, port) == [ip |-> ip, port |-> port]

A4a == Sock(IpV4(127, 0, 1, 2), 80)
A4b == Sock(IpV4(192, 168, 1, 101), 443)
A4max == Sock(IpV4(255, 255, 255, 255), 65535)
A6a == Sock(IpV6(<< 4660, 22136, 37035, 52719, 65244, 47625, 34661, 17185 >>), 443)
A6b == Sock(IpV6(<< 17185, 34661, 47625, 65244, 52719, 37035, 22136, 4660 >>), 65535)
A6c == Sock(IpV6(<< 8193, 3512, 0, 0, 0, 0, 0, 1 >>), 0)
A6max == Sock(IpV6(<< 65535, 65535, 65535, 65535, 65535, 65535, 65535, 65535 >>), 65535)
A6lo == Sock(IpV6(<< 0, 0, 0, 0, 0, 0, 0, 1 >>), 8080)
A6z == Sock(IpV6(<< 1, 0, 0, 2, 0, 0, 0, 0 >>), 10)

\* client addresses a Forwarded extension may carry
FwdAddrs == { A4a, A6a, A6max }
\* peer addresses a SocketInfo extension may carry
PeerAddrs == { A4max, A6c }
\* addresses of the connection the inner service establishes
DstAddrs == { A4b, A6b, A6lo, A6z }

\* Forwarded: the first element's "for" node, an optional IP and port
ForwardedNew(ip, port) == [for_ip |-> ip, for_port |-> port]
Forwardeds ==
    { ForwardedNew(Some(a.ip), Some(a.port)) : a \in FwdAddrs }
        \cup { ForwardedNew(Some(A4a.ip), None), ForwardedNew(None, None) }

\* SocketInfo::new(local_addr, peer_addr)
SocketInfoNew(peer) == [peer |-> peer]
SocketInfos == { SocketInfoNew(a) : a \in PeerAddrs }

\* Forwarded::client_socket_addr
ClientSocketAddr(f) ==
    IF IsSome(f.for_ip) /\ IsSome(f.for_port)
    THEN Some(Sock(Unwrap(f.for_ip), Unwrap(f.for_port)))
    ELSE None

\* SocketInfo::peer_addr
PeerAddr(info) == info.peer

\* ---------------------------------------------------------------- context
\* The extension map, one slot per type the two layers read or write.
Ctx(f, s, u) == [fwd |-> f, sock |-> s, ua |-> u]
ProxyCtxs ==
    { Ctx(f, s, None) :
        f \in { None } \cup { Some(x) : x \in Forwardeds },
        s \in { None } \cup { Some(x) : x \in SocketInfos } }

\* ------------------------------------------------------------ text helpers
Max(S) == CHOOSE x \in S : \A y \in S : y <= x
Min(S) == CHOOSE x \in S : \A y \in S : x <= y

RECURSIVE DecDigits(_)
\* base-10 digits of n as ASCII, no leading zeros (Display of u8 / u16)
DecDigits(n) ==
    IF n < 10 THEN << 48 + n >> ELSE DecDigits(n \div 10) \o << 48 + (n % 10) >>

HexDigit(d) == IF d < 10 THEN 48 + d ELSE 87 + d

RECURSIVE HexDigits(_)
\* lower-case base-16 digits of n as ASCII, no leading zeros ({:x})
HexDigits(n) ==
    IF n < 16 THEN << HexDigit(n) >>
    ELSE HexDigits(n \div 16) \o << HexDigit(n % 16) >>

\* Display of Ipv4Addr: dotted quad
FmtIpv4(o) ==
    DecDigits(o[1]) \o << 46 >> \o DecDigits(o[2]) \o << 46 >>
        \o DecDigits(o[3]) \o << 46 >> \o DecDigits(o[4])

RECURSIVE ZeroRun(_, _)
\* number of consecutive zero segments of s starting at index i
ZeroRun(s, i) ==
    IF i > Len(s) \/ s[i] # 0 THEN 0 ELSE 1 + ZeroRun(s, i + 1)

RECURSIVE FmtSegments(_, _, _)
\* segments s[from..to] in hex, joined by ':'
FmtSegments(s, from, to) ==
    IF from > to THEN << >>
    ELSE IF from = to THEN HexDigits(s[from])
    ELSE HexDigits(s[from]) \o << 58 >> \o FmtSegments(s, from + 1, to)

\* Display of Ipv6Addr: IPv4-mapped addresses as ::ffff:a.b.c.d, otherwise
\* the first longest run of two or more zero segments is written as "::"
FmtIpv6(s) ==
    IF ZeroRun(s, 1) = 5 /\ s[6] = 65535
    THEN << 58, 58, 102, 102, 102, 102, 58 >>
            \o FmtIpv4(<< s[7] \div 256, s[7] % 256, s[8] \div 256, s[8] % 256 >>)
    ELSE LET longest == Max({ ZeroRun(s, i) : i \in 1..8 })
             start == Min({ i \in 1..8 : ZeroRun(s, i) = longest })
         IN  IF longest > 1
             THEN FmtSegments(s, 1, start - 1) \o << 58, 58 >>
                    \o FmtSegments(s, start + longest, 8)
             ELSE FmtSegments(s, 1, 8)

FmtIp(ip) == IF ip.fam = "V4" THEN FmtIpv4(ip.parts) ELSE FmtIpv6(ip.parts)

\* ------------------------------------------------------- PROXY v1 encoder
\* v1::Addresses::new_tcp4 / new_tcp6
V1NewTcp4(src_ip, dst_ip, src_port, dst_port) ==
    [family |-> "TCP4", source_address |-> src_ip, destination_address |-> dst_ip,
     source_port |-> src_port, destination_port |-> dst_port]

V1NewTcp6(src_ip, dst_ip, src_port, dst_port) ==
    [family |-> "TCP6", source_address |-> src_ip, destination_address |-> dst_ip,
     source_port |-> src_port, destination_port |-> dst_port]

\* Display of v1::Addresses: "PROXY TCPn src dst sport dport\r\n"
V1ToString(a) ==
    << 80, 82, 79, 88, 89, 32, 84, 67, 80 >>
        \o (IF a.family = "TCP4" THEN << 52 >> ELSE << 54 >>)
        \o << 32 >> \o FmtIp(a.source_address)
        \o << 32 >> \o FmtIp(a.destination_address)
        \o << 32 >> \o DecDigits(a.source_port)
        \o << 32 >> \o DecDigits(a.destination_port)
        \o << 13, 10 >>

\* ------------------------------------------------------- PROXY v2 encoder
V2_PROTOCOL_PREFIX == << 13, 10, 13, 10, 0, 13, 10, 81, 85, 73, 84, 10 >>
\* v2::Version::Two | v2::Command::Proxy
V2_VERSION_TWO == 32
V2_COMMAND_PROXY == 1
\* v2::Protocol
V2_STREAM == 1
V2_DATAGRAM == 2
\* v2::AddressFamily, in the high nibble
V2_FAMILY_IPV4 == 16
V2_FAMILY_IPV6 == 32
\* largest value of the 16-bit length field
U16_MAX == 65535

U16Be(n) == << (n \div 256) % 256, n % 256 >>

RECURSIVE SegmentsBe(_)
SegmentsBe(s) == IF s = << >> THEN << >> ELSE U16Be(Head(s)) \o SegmentsBe(Tail(s))

IpBytes(ip) == IF ip.fam = "V4" THEN ip.parts ELSE SegmentsBe(ip.parts)

\* v2::IPv4::new / v2::IPv6::new: the address block
V2IPv4New(src_ip, dst_ip, src_port, dst_port) ==
    [family |-> V2_FAMILY_IPV4,
     block |-> IpBytes(src_ip) \o IpBytes(dst_ip) \o U16Be(src_port) \o U16Be(dst_port)]

V2IPv6New(src_ip, dst_ip, src_port, dst_port) ==
    [family |-> V2_FAMILY_IPV6,
     block |-> IpBytes(src_ip) \o IpBytes(dst_ip) \o U16Be(src_port) \o U16Be(dst_port)]

\* v2::Builder::with_addresses
V2WithAddresses(version_command, protocol, addresses) ==
    [version_command |-> version_command,
     family_protocol |-> addresses.family + protocol,
     body |-> addresses.block]

\* v2::Builder::write_payload: the bytes are appended after the address block
V2WritePayload(builder, payload) ==
    [ok |-> TRUE, builder |-> [builder EXCEPT !.body = @ \o payload]]

\* v2::Builder::build: signature, two header bytes, the length of what
\* follows, then the address block and payload; rejected when the length
\* does not fit the 16-bit field
V2Build(builder) ==
    IF Len(builder.body) > U16_MAX
    THEN [ok |-> FALSE, bytes |-> << >>]
    ELSE [ok |-> TRUE,
          bytes |-> V2_PROTOCOL_PREFIX
                      \o << builder.version_command, builder.family_protocol >>
                      \o U16Be(Len(builder.body)) \o builder.body]

\* ------------------------------------------------------------------ errors
\* An error is a cause with the context strings wrapped around it,
\* outermost first.
OpaqueFromDisplay(msg) == [context |-> << >>, cause |-> msg]
\* faulty variant of BoxFrom: the error is replaced by a fixed message
BoxFromOpaque(e) == [context |-> << >>, cause |-> "PROXY client: inner service failed"]

\* map_err(Into::into): the inner error boxed as it is
BoxFrom(e) == [context |-> << >>, cause |-> e]
\* ErrorContext::context
WithContext(e, msg) == [context |-> << msg >> \o e.context, cause |-> e.cause]

InnerErrors == { "inner: connection refused", "inner: timed out" }
IoErrors == { "io: broken pipe" }
BuilderError == "v2: header length does not fit"

\* ------------------------------------------------- PROXY client: the steps
\* faulty variant of ResolveSrc: SocketInfo is asked before Forwarded
ResolveSrcSocketInfoFirst(ctx) ==
    IF IsSome(ctx.sock) THEN Some(PeerAddr(Unwrap(ctx.sock)))
    ELSE IF IsSome(ctx.fwd) THEN ClientSocketAddr(Unwrap(ctx.fwd))
    ELSE None

\* faulty variant of ResolveSrc: a Forwarded extension that yields no
\* address is not followed by the SocketInfo fallback
ResolveSrcNoFallback(ctx) ==
    IF IsSome(ctx.fwd) THEN ClientSocketAddr(Unwrap(ctx.fwd))
    ELSE IF IsSome(ctx.sock) THEN Some(PeerAddr(Unwrap(ctx.sock)))
    ELSE None

\* src of serve: Forwarded's client socket address, else SocketInfo's peer
ResolveSrc(ctx) ==
    LET forwarded ==
            IF IsSome(ctx.fwd) THEN ClientSocketAddr(Unwrap(ctx.fwd)) ELSE None
    IN  IF IsSome(forwarded) THEN forwarded
        ELSE IF IsSome(ctx.sock) THEN Some(PeerAddr(Unwrap(ctx.sock)))
        ELSE None

V1MissingSrc == OpaqueFromDisplay("PROXY client (v1): missing src socket address")
\* faulty variant of V2MissingSrc: the message of the v1 service
V2MissingSrcCopied ==
    OpaqueFromDisplay("PROXY client (v1): missing src socket address")
V2MissingSrc == OpaqueFromDisplay("PROXY client (v2): missing src socket address")
V1Mismatch ==
    OpaqueFromDisplay("PROXY client (v1): IP version mismatch between src and dest")
V2Mismatch ==
    OpaqueFromDisplay("PROXY client (v2): IP version mismatch between src and dest")

\* faulty variant of V1Addresses: the family is taken from dst alone
V1AddressesByDst(src, dst) ==
    IF dst.ip.fam = "V4"
    THEN Some(V1NewTcp4(src.ip, dst.ip, src.port, dst.port))
    ELSE Some(V1NewTcp6(src.ip, dst.ip, src.port, dst.port))

\* faulty variant of V1Addresses: the two ports change places
V1AddressesSwappedPorts(src, dst) ==
    IF src.ip.fam = "V4" /\ dst.ip.fam = "V4"
    THEN Some(V1NewTcp4(src.ip, dst.ip, dst.port, src.port))
    ELSE IF src.ip.fam = "V6" /\ dst.ip.fam = "V6"
    THEN Some(V1NewTcp6(src.ip, dst.ip, dst.port, src.port))
    ELSE None

\* the match on (src.ip(), dst.ip()) of the v1 serve: Some(addresses), or
\* None for the (_, _) arm
V1Addresses(src, dst) ==
    IF src.ip.fam = "V4" /\ dst.ip.fam = "V4"
    THEN Some(V1NewTcp4(src.ip, dst.ip, src.port, dst.port))
    ELSE IF src.ip.fam = "V6" /\ dst.ip.fam = "V6"
    THEN Some(V1NewTcp6(src.ip, dst.ip, src.port, dst.port))
    ELSE None

\* faulty variant of V2Protocol: the two transports change places
V2ProtocolSwapped(proto) == IF proto = "Tcp" THEN V2_DATAGRAM ELSE V2_STREAM

\* protocol::Protocol::v2_protocol
V2Protocol(proto) == IF proto = "Tcp" THEN V2_STREAM ELSE V2_DATAGRAM

\* faulty variant of V2Builder: the command is left at Local (0)
V2BuilderLocal(proto, src, dst) ==
    IF src.ip.fam = "V4" /\ dst.ip.fam = "V4"
    THEN Some(V2WithAddresses(V2_VERSION_TWO, V2Protocol(proto),
                              V2IPv4New(src.ip, dst.ip, src.port, dst.port)))
    ELSE IF src.ip.fam = "V6" /\ dst.ip.fam = "V6"
    THEN Some(V2WithAddresses(V2_VERSION_TWO, V2Protocol(proto),
                              V2IPv6New(src.ip, dst.ip, src.port, dst.port)))
    ELSE None

\* the match on (src.ip(), dst.ip()) of the v2 serve: Some(builder), or None
V2Builder(proto, src, dst) ==
    IF src.ip.fam = "V4" /\ dst.ip.fam = "V4"
    THEN Some(V2WithAddresses(V2_VERSION_TWO + V2_COMMAND_PROXY, V2Protocol(proto),
                              V2IPv4New(src.ip, dst.ip, src.port, dst.port)))
    ELSE IF src.ip.fam = "V6" /\ dst.ip.fam = "V6"
    THEN Some(V2WithAddresses(V2_VERSION_TWO + V2_COMMAND_PROXY, V2Protocol(proto),
                              V2IPv6New(src.ip, dst.ip, src.port, dst.port)))
    ELSE None

\* faulty variant of V2ApplyPayload: the configured payload is not written
\* faulty variant of V2ApplyPayload: the payload is written behind a byte
\* holding its length
V2ApplyPayloadLengthPrefixed(version, builder) ==
    IF IsSome(version.payload)
    THEN V2WritePayload(builder, << Len(Unwrap(version.payload)) % 256 >>
                                    \o Unwrap(version.payload))
    ELSE [ok |-> TRUE, builder |-> builder]

V2ApplyPayloadSkipped(version, builder) == [ok |-> TRUE, builder |-> builder]

\* if let Some(payload) = self.version.payload: write_payload, else builder
V2ApplyPayload(version, builder) ==
    IF IsSome(version.payload)
    THEN V2WritePayload(builder, Unwrap(version.payload))
    ELSE [ok |-> TRUE, builder |-> builder]

\* What serve does between the return of the inner service and the write:
\* an error to return, or the header bytes to write.
Fail(e) == [tag |-> "err", err |-> e, bytes |-> << >>]
Write(b) == [tag |-> "write", err |-> OpaqueFromDisplay(""), bytes |-> b]

\* faulty variant of V1Encode: when the families differ the peer address of
\* SocketInfo is tried as the source
V1EncodeFallsBack(ctx, dst) ==
    LET src == ResolveSrc(ctx)
    IN  IF ~IsSome(src) THEN Fail(V1MissingSrc)
        ELSE LET addresses == V1Addresses(Unwrap(src), dst)
                 fallback == IF IsSome(ctx.sock)
                             THEN V1Addresses(PeerAddr(Unwrap(ctx.sock)), dst)
                             ELSE None
             IN  IF IsSome(addresses) THEN Write(V1ToString(Unwrap(addresses)))
                 ELSE IF IsSome(fallback) THEN Write(V1ToString(Unwrap(fallback)))
                 ELSE Fail(V1Mismatch)

\* the v1 serve from the resolution of src to the bytes handed to write_all
V1Encode(ctx, dst) ==
    LET src == ResolveSrc(ctx)
    IN  IF ~IsSome(src) THEN Fail(V1MissingSrc)
        ELSE LET addresses == V1Addresses(Unwrap(src), dst)
             IN  IF ~IsSome(addresses) THEN Fail(V1Mismatch)
                 ELSE Write(V1ToString(Unwrap(addresses)))

\* faulty variant of V2Encode: the result of build is taken without the ?,
\* as with unwrap_or_default
V2EncodeUnchecked(proto, version, ctx, dst) ==
    LET src == ResolveSrc(ctx)
    IN  IF ~IsSome(src) THEN Fail(V2MissingSrc)
        ELSE LET builder == V2Builder(proto, Unwrap(src), dst)
             IN  IF ~IsSome(builder) THEN Fail(V2Mismatch)
                 ELSE Write(V2Build(V2ApplyPayload(version, Unwrap(builder)).builder).bytes)

\* the v2 serve from the resolution of src to the bytes handed to write_all
V2Encode(proto, version, ctx, dst) ==
    LET src == ResolveSrc(ctx)
    IN  IF ~IsSome(src) THEN Fail(V2MissingSrc)
        ELSE LET builder == V2Builder(proto, Unwrap(src), dst)
             IN  IF ~IsSome(builder) THEN Fail(V2Mismatch)
                 ELSE LET withPayload == V2ApplyPayload(version, Unwrap(builder))
                      IN  IF ~withPayload.ok
                          THEN Fail(WithContext(BoxFrom(BuilderError),
                                    "PROXY client (v2): write custom binary payload to to header"))
                          ELSE LET header == V2Build(withPayload.builder)
                               IN  IF ~header.ok
                                   THEN Fail(WithContext(BoxFrom(BuilderError),
                                             "PROXY client (v2): encode header"))
                                   ELSE Write(header.bytes)

\* the context put on a failed write_all
V1WriteContext == "PROXY client (v1): write addresses"
\* faulty variant of V2WriteContext: the message of the v1 serve
V2WriteContextCopied == "PROXY client (v1): write addresses"

V2WriteContext == "PROXY client (v2): write header"

\* -------------------------------------------------- User-Agent classifier
\* UserAgent::new
UserAgentNew(header) ==
    [header_str |-> header, http_agent |-> None, tls_agent |-> None,
     preserve_ua_header |-> FALSE]

OverwriteHeaderNames == { "x-ua-overwrite", "x-other" }

\* a header value: bytes that do or do not parse as UserAgentOverwrites
Overwrites(ua, http, tls, preserve_ua) ==
    [parses |-> TRUE, ua |-> ua, http |-> http, tls |-> tls, preserve_ua |-> preserve_ua]
Garbage == [parses |-> FALSE, ua |-> None, http |-> None, tls |-> None, preserve_ua |-> None]
OverwriteValues ==
    { Overwrites(u, h, t, p) :
        u \in { None, Some("ua-overwrite") }, h \in { None, Some("Chromium") },
        t \in { None, Some("Rustls") }, p \in { None, Some(TRUE) } }
        \cup { Garbage }

\* serde_html_form::from_bytes::<UserAgentOverwrites>(value).ok()
ParseOverwrites(value) == IF value.parses THEN Some(value) ELSE None

\* a request: the typed User-Agent header (absent or invalid: None) and at
\* most one other header
Request(id, ua, name, value) ==
    [id |-> id, user_agent |-> ua, header_name |-> name, header_value |-> value]
ProxyRequests == { Request(i, None, None, None) : i \in { "req-a", "req-b" } }
\* the request serve is called with; the inner service may return another
ServeRequests == { Request("req-a", None, None, None) }
UaRequests ==
    { Request("req-a", u, None, None) : u \in { None, Some("ua-header") } }
        \cup { Request("req-a", u, Some(n), Some(v)) :
                u \in { None, Some("ua-header") }, n \in OverwriteHeaderNames,
                v \in OverwriteValues }
UaCtxs == { Ctx(None, None, u) : u \in { None, Some(UserAgentNew("ua-old")) } }

\* req.headers().get(header)
HeaderGet(req, name) ==
    IF IsSome(req.header_name) /\ Unwrap(req.header_name) = name
    THEN req.header_value ELSE None

\* faulty variant of UaClassify: the ua of the overwrite is used only when the
\* request has no User-Agent header
UaClassifyHeaderWins(overwrite_header, req) ==
    LET user_agent ==
            IF IsSome(req.user_agent) THEN Some(UserAgentNew(Unwrap(req.user_agent)))
            ELSE None
        value == IF IsSome(overwrite_header)
                 THEN HeaderGet(req, Unwrap(overwrite_header)) ELSE None
        overwrites == IF IsSome(value) THEN ParseOverwrites(Unwrap(value)) ELSE None
    IN  IF ~IsSome(overwrites) THEN user_agent
        ELSE LET o == Unwrap(overwrites)
                 ua1 == IF IsSome(o.ua) /\ ~IsSome(user_agent)
                        THEN Some(UserAgentNew(Unwrap(o.ua)))
                        ELSE user_agent
             IN  IF ~IsSome(ua1) THEN None
                 ELSE LET a == Unwrap(ua1)
                          b == IF IsSome(o.http) THEN [a EXCEPT !.http_agent = o.http]
                               ELSE a
                          c == IF IsSome(o.tls) THEN [b EXCEPT !.tls_agent = o.tls]
                               ELSE b
                          d == IF IsSome(o.preserve_ua)
                               THEN [c EXCEPT !.preserve_ua_header = Unwrap(o.preserve_ua)]
                               ELSE c
                      IN  Some(d)

\* faulty variant of UaClassify: an overwrite without ua is applied to an
\* empty UserAgent when the request has no User-Agent header
UaClassifyDefaultUa(overwrite_header, req) ==
    LET user_agent ==
            IF IsSome(req.user_agent) THEN Some(UserAgentNew(Unwrap(req.user_agent)))
            ELSE None
        value == IF IsSome(overwrite_header)
                 THEN HeaderGet(req, Unwrap(overwrite_header)) ELSE None
        overwrites == IF IsSome(value) THEN ParseOverwrites(Unwrap(value)) ELSE None
    IN  IF ~IsSome(overwrites) THEN user_agent
        ELSE LET o == Unwrap(overwrites)
                 a == IF IsSome(o.ua) THEN UserAgentNew(Unwrap(o.ua))
                      ELSE IF IsSome(user_agent) THEN Unwrap(user_agent)
                      ELSE UserAgentNew("")
                 b == IF IsSome(o.http) THEN [a EXCEPT !.http_agent = o.http] ELSE a
                 c == IF IsSome(o.tls) THEN [b EXCEPT !.tls_agent = o.tls] ELSE b
                 d == IF IsSome(o.preserve_ua)
                      THEN [c EXCEPT !.preserve_ua_header = Unwrap(o.preserve_ua)]
                      ELSE c
             IN  Some(d)

\* the UserAgent the classifier computes for a request, if any
UaClassify(overwrite_header, req) ==
    LET user_agent ==
            IF IsSome(req.user_agent) THEN Some(UserAgentNew(Unwrap(req.user_agent)))
            ELSE None
        value == IF IsSome(overwrite_header)
                 THEN HeaderGet(req, Unwrap(overwrite_header)) ELSE None
        overwrites == IF IsSome(value) THEN ParseOverwrites(Unwrap(value)) ELSE None
    IN  IF ~IsSome(overwrites) THEN user_agent
        ELSE LET o == Unwrap(overwrites)
                 ua1 == IF IsSome(o.ua) THEN Some(UserAgentNew(Unwrap(o.ua)))
                        ELSE user_agent
             IN  IF ~IsSome(ua1) THEN None
                 ELSE LET a == Unwrap(ua1)
                          b == IF IsSome(o.http) THEN [a EXCEPT !.http_agent = o.http]
                               ELSE a
                          c == IF IsSome(o.tls) THEN [b EXCEPT !.tls_agent = o.tls]
                               ELSE b
                          d == IF IsSome(o.preserve_ua)
                               THEN [c EXCEPT !.preserve_ua_header = Unwrap(o.preserve_ua)]
                               ELSE c
                      IN  Some(d)

\* faulty variant of UaInsert: a UserAgent already in the context is kept
UaInsertIfAbsent(ctx, user_agent) ==
    IF IsSome(user_agent) /\ ~IsSome(ctx.ua) THEN [ctx EXCEPT !.ua = user_agent] ELSE ctx

\* if let Some(ua) = user_agent.take() { ctx.insert(ua) }
UaInsert(ctx, user_agent) ==
    IF IsSome(user_agent) THEN [ctx EXCEPT !.ua = user_agent] ELSE ctx

\* ------------------------------------------------------------ layer stacks
MaxStackPushes == 2

\* A layer value: one of the layers, or a composition of two layers.
AtomicLayer(kind, overwrite_header) ==
    [kind |-> kind, overwrite_header |-> overwrite_header, parts |-> << >>]
\* the layer of an empty builder
Identity == [kind |-> "Identity", overwrite_header |-> None, parts |-> << >>]
\* AddRequiredRequestHeadersLayer::default()
AddRequiredRequestHeadersLayer == AtomicLayer("AddRequiredRequestHeaders", None)
\* UserAgentClassifierLayer with its overwrite_header
UserAgentClassifierLayer(overwrite_header) ==
    AtomicLayer("UserAgentClassifier", overwrite_header)
\* Stack<Inner, Outer>
StackNew(inner, outer) ==
    [kind |-> "Stack", overwrite_header |-> None, parts |-> << inner, outer >>]
\* the tuple (L1, L2) used as a layer
Tuple(l1, l2) ==
    [kind |-> "Tuple", overwrite_header |-> None, parts |-> << l1, l2 >>]

\* Layer::layer: the service a layer makes of an inner service. A service is
\* the sequence of its wrapping layers, outermost first, around the leaf.
\*   Stack:  outer.layer(inner.layer(service))
\*   tuple:  L1.layer(L2.layer(service))
RECURSIVE ApplyLayer(_, _)
ApplyLayer(layer, service) ==
    CASE layer.kind = "Identity" -> service
      [] layer.kind = "Stack" ->
            ApplyLayer(layer.parts[2], ApplyLayer(layer.parts[1], service))
      [] layer.kind = "Tuple" ->
            ApplyLayer(layer.parts[1], ApplyLayer(layer.parts[2], service))
      [] OTHER -> << layer >> \o service

\* the User-Agent value of the framework: "{NAME}/{VERSION}"
RamaUserAgent == "{NAME}/{VERSION}"

\* what a wrapping service does to the context and request before it calls
\* its inner service
LayerPre(layer, ctx, req) ==
    CASE layer.kind = "AddRequiredRequestHeaders" ->
            [ctx |-> ctx,
             req |-> IF IsSome(req.user_agent) THEN req
                     ELSE [req EXCEPT !.user_agent = Some(RamaUserAgent)]]
      [] layer.kind = "UserAgentClassifier" ->
            [ctx |-> UaInsert(ctx, UaClassify(layer.overwrite_header, req)),
             req |-> req]

StackLayers ==
    { AddRequiredRequestHeadersLayer,
      UserAgentClassifierLayer(None),
      UserAgentClassifierLayer(Some("x-ua-overwrite")) }
PushedLayers ==
    StackLayers
        \cup { Tuple(AddRequiredRequestHeadersLayer, l) :
                 l \in StackLayers \ { AddRequiredRequestHeadersLayer } }

StackRequests ==
    { Request("req-a", None, None, None),
      Request("req-a", Some("ua-header"), None, None),
      Request("req-a", None, Some("x-ua-overwrite"),
              Some(Overwrites(Some("ua-overwrite"), None, None, None))),
      Request("req-a", Some("ua-header"), Some("x-ua-overwrite"),
              Some(Overwrites(None, Some("Chromium"), None, Some(TRUE)))) }

\* ------------------------------------------------------------------- state
VARIABLES
    svc,    \* the layer or service value the program has built
    calls,  \* the serve calls: call id -> its state
    stack,  \* a layer stack: its builder, the service built, one request in it
    fp      \* the fingerprint service: the shared State and its requests

vars == << svc, calls, stack, fp >>

CallIds == { 1 }

Payloads == UNION { [1..n -> { 42, 255 }] : n \in 0..MaxPayloadLen }

VersionOne == [tag |-> "One", payload |-> None]
\* version::Two::default()
VersionTwo == [tag |-> "Two", payload |-> None]

\* The field attached is history, not program state: the payload last given
\* to payload() on the way to this value, kept across v1() and layer().
NoSvc ==
    [kind |-> "none", stage |-> "none", proto |-> "Tcp", version |-> VersionTwo,
     overwrite_header |-> None, attached |-> None]
HaProxy(stage, proto, version) ==
    [kind |-> "haproxy", stage |-> stage, proto |-> proto, version |-> version,
     overwrite_header |-> None, attached |-> None]
UaSvc(stage, overwrite_header) ==
    [kind |-> "ua", stage |-> stage, proto |-> "Tcp", version |-> VersionTwo,
     overwrite_header |-> overwrite_header, attached |-> None]

\* faulty variant of V1Default: the payload of the v2 value is carried over
V1DefaultKeepsPayload(version) == [tag |-> "One", payload |-> version.payload]

\* version: Default::default() in v1(): the v2 value is not consulted
V1Default(version) == VersionOne

EmptyCtx == Ctx(None, None, None)
NoRequest == Request("", None, None, None)

IdleCall ==
    [pc |-> "idle", in_ctx |-> EmptyCtx, in_req |-> NoRequest,
     innerErr |-> None, ctx |-> EmptyCtx, req |-> NoRequest, conn |-> None,
     hdr |-> << >>, result |-> None, innerCalls |-> 0, writes |-> 0, appWrites |-> 0]

\* ClientConnection::new(target_addr, stream): nothing written yet
NewConn(addr) == [addr |-> addr, wlog |-> << >>, reads |-> 0, holder |-> "serve"]

Ok(ctx, req) == [ok |-> TRUE, ctx |-> ctx, req |-> req, err |-> OpaqueFromDisplay("")]
Err(e) == [ok |-> FALSE, ctx |-> EmptyCtx, req |-> NoRequest, err |-> e]

NoCallInFlight == \A c \in DOMAIN calls : calls[c].pc = "idle"

\* HttpServer with an empty service builder, nothing served
NewStack ==
    [builder |-> Identity, pushed |-> << >>, service |-> None, pc |-> "build",
     pos |-> 0, in_ctx |-> EmptyCtx, in_req |-> NoRequest, ctx |-> EmptyCtx,
     req |-> NoRequest, trace |-> << >>, seen |-> None]

\* requests the fingerprint service handles at the same time
MaxRequests == 3
RequestIds == 1..MaxRequests

\* a request slot no request has used
IdleRequest == [pc |-> "idle", endpoint |-> "", path |-> << >>, number |-> None]

\* State as the service is started with: the counter at zero
NewState == [counter |-> 0, requests |-> [r \in RequestIds |-> IdleRequest]]

Init ==
    /\ svc = NoSvc
    /\ calls = [c \in CallIds |-> IdleCall]
    /\ stack = NewStack
    /\ fp = NewState

\* ------------------------------------------------------------ construction
\* The builder methods take self by value and serve borrows the service, so
\* a value is rebuilt only while no call is in flight.

\* HaProxyLayer::tcp
LayerTcp ==
    /\ NoCallInFlight
    /\ svc' = HaProxy("layer", "Tcp", VersionTwo)
    /\ UNCHANGED << calls, stack, fp >>

\* HaProxyLayer::udp
LayerUdp ==
    /\ NoCallInFlight
    /\ svc' = HaProxy("layer", "Udp", VersionTwo)
    /\ UNCHANGED << calls, stack, fp >>

\* faulty variant of LayerV1: defined for every protocol
LayerV1AnyProtocol ==
    /\ NoCallInFlight
    /\ svc.kind = "haproxy" /\ svc.stage = "layer"
    /\ svc.version.tag = "Two"
    /\ svc' = [HaProxy("layer", svc.proto, V1Default(svc.version))
                  EXCEPT !.attached = svc.attached]
    /\ UNCHANGED << calls, stack, fp >>

\* HaProxyLayer::v1, defined on HaProxyLayer<Tcp, Two> only
LayerV1 ==
    /\ NoCallInFlight
    /\ svc.kind = "haproxy" /\ svc.stage = "layer"
    /\ svc.proto = "Tcp" /\ svc.version.tag = "Two"
    /\ svc' = [HaProxy("layer", "Tcp", V1Default(svc.version))
                  EXCEPT !.attached = svc.attached]
    /\ UNCHANGED << calls, stack, fp >>

\* HaProxyLayer::payload, defined on HaProxyLayer<P, Two> only
LayerPayload(payload) ==
    /\ NoCallInFlight
    /\ svc.kind = "haproxy" /\ svc.stage = "layer" /\ svc.version.tag = "Two"
    /\ svc' = [svc EXCEPT !.version.payload = Some(payload),
                          !.attached = Some(payload)]
    /\ UNCHANGED << calls, stack, fp >>

\* Layer::layer for HaProxyLayer: the service gets a clone of the version
LayerLayer ==
    /\ NoCallInFlight
    /\ svc.kind = "haproxy" /\ svc.stage = "layer"
    /\ svc' = [HaProxy("service", svc.proto, svc.version)
                  EXCEPT !.attached = svc.attached]
    /\ UNCHANGED << calls, stack, fp >>

\* HaProxyService::tcp
ServiceTcp ==
    /\ NoCallInFlight
    /\ svc' = HaProxy("service", "Tcp", VersionTwo)
    /\ UNCHANGED << calls, stack, fp >>

\* HaProxyService::udp
ServiceUdp ==
    /\ NoCallInFlight
    /\ svc' = HaProxy("service", "Udp", VersionTwo)
    /\ UNCHANGED << calls, stack, fp >>

\* HaProxyService::v1, defined on HaProxyService<S, Tcp, Two> only
ServiceV1 ==
    /\ NoCallInFlight
    /\ svc.kind = "haproxy" /\ svc.stage = "service"
    /\ svc.proto = "Tcp" /\ svc.version.tag = "Two"
    /\ svc' = [HaProxy("service", "Tcp", V1Default(svc.version))
                  EXCEPT !.attached = svc.attached]
    /\ UNCHANGED << calls, stack, fp >>

\* HaProxyService::payload, defined on HaProxyService<S, P, Two> only
ServicePayload(payload) ==
    /\ NoCallInFlight
    /\ svc.kind = "haproxy" /\ svc.stage = "service" /\ svc.version.tag = "Two"
    /\ svc' = [svc EXCEPT !.version.payload = Some(payload),
                          !.attached = Some(payload)]
    /\ UNCHANGED << calls, stack, fp >>

\* UserAgentClassifierLayer::new
UaLayerNew ==
    /\ NoCallInFlight
    /\ svc' = UaSvc("layer", None)
    /\ UNCHANGED << calls, stack, fp >>

\* UserAgentClassifierLayer::overwrite_header / set_overwrite_header
UaLayerOverwriteHeader(header) ==
    /\ NoCallInFlight
    /\ svc.kind = "ua" /\ svc.stage = "layer"
    /\ svc' = [svc EXCEPT !.overwrite_header = Some(header)]
    /\ UNCHANGED << calls, stack, fp >>

\* Layer::layer for UserAgentClassifierLayer
UaLayerLayer ==
    /\ NoCallInFlight
    /\ svc.kind = "ua" /\ svc.stage = "layer"
    /\ svc' = UaSvc("service", svc.overwrite_header)
    /\ UNCHANGED << calls, stack, fp >>

\* ------------------------------------------------------ PROXY client: serve
\* what the inner connect service does to the extensions before returning
InnerOps == { "keep", "insert_fwd", "remove_fwd", "insert_sock", "remove_sock" }
ApplyInnerOp(ctx, op) ==
    CASE op = "keep" -> ctx
      [] op = "insert_fwd" ->
            [ctx EXCEPT !.fwd = Some(ForwardedNew(Some(A6a.ip), Some(A6a.port)))]
      [] op = "remove_fwd" -> [ctx EXCEPT !.fwd = None]
      [] op = "insert_sock" -> [ctx EXCEPT !.sock = Some(SocketInfoNew(A4max))]
      [] op = "remove_sock" -> [ctx EXCEPT !.sock = None]

\* the encoding step of the service's version
Encode(ctx, dst) ==
    IF svc.version.tag = "One" THEN V1Encode(ctx, dst)
    ELSE V2Encode(svc.proto, svc.version, ctx, dst)

WriteContext == IF svc.version.tag = "One" THEN V1WriteContext ELSE V2WriteContext

\* faulty variant of CallInner: the inner service is invoked a second time
CallInnerTwice(call) == [call EXCEPT !.pc = "inner", !.innerCalls = @ + 2]

\* self.inner.serve(ctx, req).await: one invocation of the inner service
CallInner(call) == [call EXCEPT !.pc = "inner", !.innerCalls = @ + 1]

\* faulty variant of Established: the context and request serve was called
\* with are returned instead of those the inner service returned
EstablishedFromInput(call) == Ok(call.in_ctx, call.in_req)

\* Ok(EstablishedClientConnection { ctx, req, conn }): what the inner returned
Established(call) == Ok(call.ctx, call.req)

\* faulty variant of ProxyServe: a context without source is refused before
\* the inner service is called
ProxyServeChecksEarly(c, ctx, req) ==
    /\ svc.kind = "haproxy" /\ svc.stage = "service"
    /\ calls[c].pc = "idle"
    /\ calls' = [calls EXCEPT ![c] =
            IF IsSome(ResolveSrc(ctx))
            THEN CallInner([IdleCall EXCEPT !.in_ctx = ctx, !.in_req = req])
            ELSE [IdleCall EXCEPT !.in_ctx = ctx, !.in_req = req, !.pc = "done",
                                  !.result = Some(Err(IF svc.version.tag = "One"
                                                      THEN V1MissingSrc ELSE V2MissingSrc))]]
    /\ UNCHANGED << svc, stack, fp >>

\* serve is entered and awaits self.inner.serve(ctx, req)
ProxyServe(c, ctx, req) ==
    /\ svc.kind = "haproxy" /\ svc.stage = "service"
    /\ calls[c].pc = "idle"
    /\ calls' = [calls EXCEPT ![c] =
                    CallInner([IdleCall EXCEPT !.in_ctx = ctx, !.in_req = req])]
    /\ UNCHANGED << svc, stack, fp >>

\* the inner service fails: map_err(Into::into)?
ProxyInnerErr(c, e) ==
    /\ svc.kind = "haproxy"
    /\ calls[c].pc = "inner"
    /\ calls' = [calls EXCEPT ![c].pc = "done", ![c].innerErr = Some(e),
                                ![c].result = Some(Err(BoxFrom(e)))]
    /\ UNCHANGED << svc, stack, fp >>

\* faulty variant of ProxyInnerOk: the source is taken from the context
\* serve was called with
ProxyInnerOkCallerCtx(c, op, req, dst) ==
    /\ svc.kind = "haproxy"
    /\ calls[c].pc = "inner"
    /\ LET ctx == ApplyInnerOp(calls[c].in_ctx, op)
           conn == NewConn(dst)
           step == Encode(calls[c].in_ctx, conn.addr)
       IN  calls' = [calls EXCEPT ![c] =
                IF step.tag = "err"
                THEN [@ EXCEPT !.pc = "done", !.ctx = ctx, !.req = req,
                               !.conn = Some([conn EXCEPT !.holder = "dropped"]),
                               !.result = Some(Err(step.err))]
                ELSE [@ EXCEPT !.pc = "write", !.ctx = ctx, !.req = req,
                               !.conn = Some(conn), !.hdr = step.bytes,
                               !.writes = @ + 1]]
    /\ UNCHANGED << svc, stack, fp >>

\* faulty variant of ProxyInnerOk: the payload is taken out of the service
\* (self.version.payload.take()) by the call that uses it
ProxyInnerOkTakesPayload(c, op, req, dst) ==
    /\ svc.kind = "haproxy"
    /\ calls[c].pc = "inner"
    /\ LET ctx == ApplyInnerOp(calls[c].in_ctx, op)
           conn == NewConn(dst)
           step == Encode(ctx, conn.addr)
       IN  calls' = [calls EXCEPT ![c] =
                IF step.tag = "err"
                THEN [@ EXCEPT !.pc = "done", !.ctx = ctx, !.req = req,
                               !.conn = Some([conn EXCEPT !.holder = "dropped"]),
                               !.result = Some(Err(step.err))]
                ELSE [@ EXCEPT !.pc = "write", !.ctx = ctx, !.req = req,
                               !.conn = Some(conn), !.hdr = step.bytes,
                               !.writes = @ + 1]]
    /\ svc' = [svc EXCEPT !.version.payload = None]
    /\ UNCHANGED << stack, fp >>

\* the inner service returns EstablishedClientConnection { ctx, req, conn };
\* serve resolves src, encodes, and either returns an error (dropping conn)
\* or awaits conn.write_all(header)
ProxyInnerOk(c, op, req, dst) ==
    /\ svc.kind = "haproxy"
    /\ calls[c].pc = "inner"
    /\ LET ctx == ApplyInnerOp(calls[c].in_ctx, op)
           conn == NewConn(dst)
           step == Encode(ctx, conn.addr)
       IN  calls' = [calls EXCEPT ![c] =
                IF step.tag = "err"
                THEN [@ EXCEPT !.pc = "done", !.ctx = ctx, !.req = req,
                               !.conn = Some([conn EXCEPT !.holder = "dropped"]),
                               !.result = Some(Err(step.err))]
                ELSE [@ EXCEPT !.pc = "write", !.ctx = ctx, !.req = req,
                               !.conn = Some(conn), !.hdr = step.bytes,
                               !.writes = @ + 1]]
    /\ UNCHANGED << svc, stack, fp >>

\* faulty variant of ProxyWriteOk: the write future is never awaited, serve
\* returns the connection with nothing written
ProxyWriteOkUnawaited(c) ==
    /\ svc.kind = "haproxy"
    /\ calls[c].pc = "write"
    /\ calls' = [calls EXCEPT ![c] =
            [@ EXCEPT !.pc = "done", !.hdr = << >>,
                      !.conn = Some([Unwrap(calls[c].conn) EXCEPT !.holder = "caller"]),
                      !.result = Some(Ok(calls[c].ctx, calls[c].req))]]
    /\ UNCHANGED << svc, stack, fp >>

\* write_all completes: Ok(EstablishedClientConnection { ctx, req, conn })
ProxyWriteOk(c) ==
    /\ svc.kind = "haproxy"
    /\ calls[c].pc = "write"
    /\ LET conn == Unwrap(calls[c].conn)
       IN  calls' = [calls EXCEPT ![c] =
                [@ EXCEPT !.pc = "done", !.hdr = << >>,
                          !.conn = Some([conn EXCEPT
                                !.wlog = Append(@, [by |-> "proxy", bytes |-> calls[c].hdr]),
                                !.holder = "caller"]),
                          !.result = Some(Established(calls[c]))]]
    /\ UNCHANGED << svc, stack, fp >>

\* faulty variant of ProxyWriteErr: a failed write is attempted once more
ProxyWriteErrRetried(c, e, n) ==
    /\ svc.kind = "haproxy"
    /\ calls[c].pc = "write"
    /\ n < Len(calls[c].hdr)
    /\ LET conn == Unwrap(calls[c].conn)
           sent == [conn EXCEPT
                      !.wlog = IF n = 0 THEN @
                               ELSE Append(@, [by |-> "proxy",
                                               bytes |-> SubSeq(calls[c].hdr, 1, n)])]
       IN  calls' = [calls EXCEPT ![c] =
                IF calls[c].writes < 2
                THEN [@ EXCEPT !.conn = Some(sent), !.writes = @ + 1]
                ELSE [@ EXCEPT !.pc = "done", !.hdr = << >>,
                               !.conn = Some([sent EXCEPT !.holder = "dropped"]),
                               !.result = Some(Err(WithContext(BoxFrom(e), WriteContext)))]]
    /\ UNCHANGED << svc, stack, fp >>

\* faulty variant of ProxyWriteErr: the connection outlives the failed call
ProxyWriteErrKeepsConn(c, e, n) ==
    /\ svc.kind = "haproxy"
    /\ calls[c].pc = "write"
    /\ n < Len(calls[c].hdr)
    /\ LET conn == Unwrap(calls[c].conn)
       IN  calls' = [calls EXCEPT ![c] =
                [@ EXCEPT !.pc = "done", !.hdr = << >>,
                          !.conn = Some([conn EXCEPT
                                !.wlog = IF n = 0 THEN @
                                         ELSE Append(@, [by |-> "proxy",
                                                bytes |-> SubSeq(calls[c].hdr, 1, n)]),
                                !.holder = "caller"]),
                          !.result = Some(Err(WithContext(BoxFrom(e), WriteContext)))]]
    /\ UNCHANGED << svc, stack, fp >>

\* write_all fails after n bytes of the header went out: .context(..)?
ProxyWriteErr(c, e, n) ==
    /\ svc.kind = "haproxy"
    /\ calls[c].pc = "write"
    /\ n < Len(calls[c].hdr)
    /\ LET conn == Unwrap(calls[c].conn)
       IN  calls' = [calls EXCEPT ![c] =
                [@ EXCEPT !.pc = "done", !.hdr = << >>,
                          !.conn = Some([conn EXCEPT
                                !.wlog = IF n = 0 THEN @
                                         ELSE Append(@, [by |-> "proxy",
                                                bytes |-> SubSeq(calls[c].hdr, 1, n)]),
                                !.holder = "dropped"]),
                          !.result = Some(Err(WithContext(BoxFrom(e), WriteContext)))]]
    /\ UNCHANGED << svc, stack, fp >>

\* faulty variant of ProxyCancel: the write goes on in the background after
\* the future of serve is dropped
ProxyCancelDetached(c, n) ==
    /\ svc.kind = "haproxy"
    /\ \/ calls[c].pc = "inner" /\ n = 0
          /\ calls' = [calls EXCEPT ![c].pc = "cancelled"]
       \/ calls[c].pc = "write" /\ n < Len(calls[c].hdr)
          /\ calls' = [calls EXCEPT ![c] =
                [@ EXCEPT !.pc = "cancelled", !.hdr = << >>,
                          !.conn = Some([Unwrap(calls[c].conn) EXCEPT
                                !.wlog = Append(@, [by |-> "proxy", bytes |-> calls[c].hdr])])]]
    /\ UNCHANGED << svc, stack, fp >>

\* the future of serve is dropped while it is suspended: at the await of the
\* inner service, or at the await of write_all after n bytes of the header
\* went out; what the future owns is dropped with it
ProxyCancel(c, n) ==
    /\ svc.kind = "haproxy"
    /\ \/ calls[c].pc = "inner" /\ n = 0
          /\ calls' = [calls EXCEPT ![c].pc = "cancelled"]
       \/ calls[c].pc = "write" /\ n < Len(calls[c].hdr)
          /\ calls' = [calls EXCEPT ![c] =
                [@ EXCEPT !.pc = "cancelled", !.hdr = << >>,
                          !.conn = Some([Unwrap(calls[c].conn) EXCEPT
                                !.wlog = IF n = 0 THEN @
                                         ELSE Append(@, [by |-> "proxy",
                                                bytes |-> SubSeq(calls[c].hdr, 1, n)]),
                                !.holder = "dropped"])]]
    /\ UNCHANGED << svc, stack, fp >>

\* the caller writes application bytes on a connection serve returned
AppWrite(c) ==
    /\ IsSome(calls[c].conn)
    /\ Unwrap(calls[c].conn).holder = "caller"
    /\ calls[c].appWrites < MaxAppWrites
    /\ calls' = [calls EXCEPT ![c].appWrites = @ + 1,
                    ![c].conn = Some([Unwrap(calls[c].conn) EXCEPT
                           !.wlog = Append(@, [by |-> "app", bytes |-> << 71, 69, 84 >>])])]
    /\ UNCHANGED << svc, stack, fp >>

\* the caller is done with the result of the call
Finish(c) ==
    /\ calls[c].pc \in { "done", "cancelled" }
    /\ calls' = [calls EXCEPT ![c] = IdleCall]
    /\ UNCHANGED << svc, stack, fp >>

\* ------------------------------------------------ User-Agent classifier: serve
\* self.inner.serve(ctx, req): one invocation of the inner service
UaCallInner(call) == [call EXCEPT !.pc = "inner", !.innerCalls = @ + 1]

\* serve classifies, inserts the UserAgent and returns the inner future
UaServe(c, ctx, req) ==
    /\ svc.kind = "ua" /\ svc.stage = "service"
    /\ calls[c].pc = "idle"
    /\ calls' = [calls EXCEPT ![c] =
                    UaCallInner([IdleCall EXCEPT !.in_ctx = ctx, !.in_req = req,
                                    !.ctx = UaInsert(ctx, UaClassify(svc.overwrite_header, req)),
                                    !.req = req])]
    /\ UNCHANGED << svc, stack, fp >>

\* the inner future resolves; its result is the result of serve
UaInnerReturn(c, ok, e) ==
    /\ svc.kind = "ua"
    /\ calls[c].pc = "inner"
    /\ calls' = [calls EXCEPT ![c].pc = "done",
                    ![c].innerErr = IF ok THEN None ELSE Some(e),
                    ![c].result = Some(IF ok THEN Ok(calls[c].ctx, calls[c].req)
                                       ELSE Err(OpaqueFromDisplay(e)))]
    /\ UNCHANGED << svc, stack, fp >>

\* --------------------------------------------------------------------- spec
\* how many bytes of the header a failed write may have sent
PartialWrites == { 0, 1, 16 }

Next ==
    \/ LayerTcp
    \/ LayerUdp
    \/ LayerV1
    \/ \E p \in Payloads : LayerPayload(p)
    \/ LayerLayer
    \/ ServiceTcp
    \/ ServiceUdp
    \/ ServiceV1
    \/ \E p \in Payloads : ServicePayload(p)
    \/ UaLayerNew
    \/ \E h \in { "x-ua-overwrite" } : UaLayerOverwriteHeader(h)
    \/ UaLayerLayer
    \/ \E c \in DOMAIN calls, ctx \in ProxyCtxs, req \in ServeRequests :
            ProxyServe(c, ctx, req)
    \/ \E c \in DOMAIN calls, e \in InnerErrors : ProxyInnerErr(c, e)
    \/ \E c \in DOMAIN calls, op \in InnerOps, req \in ProxyRequests, dst \in DstAddrs :
            ProxyInnerOk(c, op, req, dst)
    \/ \E c \in DOMAIN calls : ProxyWriteOk(c)
    \/ \E c \in DOMAIN calls, e \in IoErrors, n \in PartialWrites : ProxyWriteErr(c, e, n)
    \/ \E c \in DOMAIN calls, n \in PartialWrites : ProxyCancel(c, n)
    \/ \E c \in DOMAIN calls : AppWrite(c)
    \/ \E c \in DOMAIN calls : Finish(c)
    \/ \E c \in DOMAIN calls, ctx \in UaCtxs, req \in UaRequests : UaServe(c, ctx, req)
    \/ \E c \in DOMAIN calls, e \in InnerErrors : UaInnerReturn(c, FALSE, e)
    \/ \E c \in DOMAIN calls : UaInnerReturn(c, TRUE, "")

Spec == Init /\ [][Next]_vars

\* --------------------------------------------------------- spec: layer stack
\* faulty variant of HttpServerLayer: the new layer wraps the ones before it
HttpServerLayerOutermost(layer) ==
    /\ stack.pc = "build"
    /\ Len(stack.pushed) < MaxStackPushes
    /\ stack' = [stack EXCEPT !.builder = StackNew(@, layer),
                              !.pushed = Append(@, layer)]
    /\ UNCHANGED << svc, calls, fp >>

\* faulty variant of HttpServerLayer: the builder is started anew with the layer
HttpServerLayerReplaces(layer) ==
    /\ stack.pc = "build"
    /\ Len(stack.pushed) < MaxStackPushes
    /\ stack' = [stack EXCEPT !.builder = StackNew(layer, Identity),
                              !.pushed = Append(@, layer)]
    /\ UNCHANGED << svc, calls, fp >>

\* HttpServer::layer: service_builder.layer(layer), giving Stack<T, L>
HttpServerLayer(layer) ==
    /\ stack.pc = "build"
    /\ Len(stack.pushed) < MaxStackPushes
    /\ stack' = [stack EXCEPT !.builder = StackNew(layer, @),
                              !.pushed = Append(@, layer)]
    /\ UNCHANGED << svc, calls, fp >>

\* self.service_builder.service(service): the stack applied to the leaf
HttpServerService ==
    /\ stack.pc = "build"
    /\ stack' = [stack EXCEPT !.service = Some(ApplyLayer(stack.builder, << >>)),
                              !.pc = "ready"]
    /\ UNCHANGED << svc, calls, fp >>

\* a request enters the outermost service
StackServe(ctx, req) ==
    /\ stack.pc = "ready"
    /\ stack' = [stack EXCEPT !.pc = "pre", !.pos = 1, !.in_ctx = ctx, !.in_req = req,
                              !.ctx = ctx, !.req = req]
    /\ UNCHANGED << svc, calls, fp >>

\* the service at depth pos does its work and calls its inner service
StackPre ==
    /\ stack.pc = "pre"
    /\ stack.pos <= Len(Unwrap(stack.service))
    /\ LET layer == Unwrap(stack.service)[stack.pos]
           out == LayerPre(layer, stack.ctx, stack.req)
       IN  stack' = [stack EXCEPT
                !.pos = @ + 1, !.ctx = out.ctx, !.req = out.req,
                !.trace = Append(@, [phase |-> "pre", layer |-> layer,
                                     saw |-> [ctx |-> stack.ctx, req |-> stack.req],
                                     gave |-> out])]
    /\ UNCHANGED << svc, calls, fp >>

\* the leaf service handles what reaches it
StackLeaf ==
    /\ stack.pc = "pre"
    /\ stack.pos = Len(Unwrap(stack.service)) + 1
    /\ stack' = [stack EXCEPT !.pc = "post", !.pos = @ - 1,
                              !.seen = Some([ctx |-> stack.ctx, req |-> stack.req])]
    /\ UNCHANGED << svc, calls, fp >>

\* the response passes the service at depth pos on its way out
StackPost ==
    /\ stack.pc = "post"
    /\ stack.pos >= 1
    /\ LET layer == Unwrap(stack.service)[stack.pos]
           io == [ctx |-> stack.ctx, req |-> stack.req]
       IN  stack' = [stack EXCEPT
                !.pos = @ - 1,
                !.trace = Append(@, [phase |-> "post", layer |-> layer,
                                     saw |-> io, gave |-> io])]
    /\ UNCHANGED << svc, calls, fp >>

\* the outermost service returns the response
StackReturn ==
    /\ stack.pc = "post"
    /\ stack.pos = 0
    /\ stack' = [stack EXCEPT !.pc = "done"]
    /\ UNCHANGED << svc, calls, fp >>

\* the next request finds the service as it was built
StackFinish ==
    /\ stack.pc = "done"
    /\ stack' = [NewStack EXCEPT !.builder = stack.builder, !.pushed = stack.pushed,
                                 !.service = stack.service, !.pc = "ready"]
    /\ UNCHANGED << svc, calls, fp >>

NextStack ==
    \/ \E layer \in PushedLayers : HttpServerLayer(layer)
    \/ HttpServerService
    \/ \E ctx \in UaCtxs, req \in StackRequests : StackServe(ctx, req)
    \/ StackPre
    \/ StackLeaf
    \/ StackPost
    \/ StackReturn
    \/ StackFinish

SpecStack == Init /\ [][NextStack]_vars

\* ---------------------------------------------------- spec: concurrent calls
\* Two serve calls in flight on one shared service, interleaved at their
\* await points.
ConcurrentCallIds == { 1, 2 }

InitConcurrent ==
    /\ svc = NoSvc
    /\ calls = [c \in ConcurrentCallIds |-> IdleCall]
    /\ stack = NewStack
    /\ fp = NewState

ConcurrentPayloads == { << 42, 255 >> }
ConcurrentDsts == { A4b, A6b }
ConcurrentCtxs ==
    { Ctx(None, None, None),
      Ctx(Some(ForwardedNew(Some(A4a.ip), Some(A4a.port))), Some(SocketInfoNew(A6c)), None),
      Ctx(None, Some(SocketInfoNew(A6c)), None) }

NextConcurrent ==
    \/ LayerTcp
    \/ LayerUdp
    \/ LayerV1
    \/ \E p \in ConcurrentPayloads : LayerPayload(p)
    \/ LayerLayer
    \/ \E c \in DOMAIN calls, ctx \in ConcurrentCtxs, req \in ServeRequests :
            ProxyServe(c, ctx, req)
    \/ \E c \in DOMAIN calls : ProxyInnerErr(c, "inner: connection refused")
    \/ \E c \in DOMAIN calls, req \in ServeRequests, dst \in ConcurrentDsts :
            ProxyInnerOk(c, "keep", req, dst)
    \/ \E c \in DOMAIN calls : ProxyWriteOk(c)
    \/ \E c \in DOMAIN calls, e \in IoErrors : ProxyWriteErr(c, e, 16)
    \/ \E c \in DOMAIN calls : ProxyCancel(c, 0)
    \/ \E c \in DOMAIN calls : Finish(c)

SpecConcurrent == InitConcurrent /\ [][NextConcurrent]_vars

\* ------------------------------------------- spec: payloads at the u16 limit
\* The same service with payloads that bring the length of an IPv4 header to
\* the largest value of the 16-bit field and one past it.
LargePayloads ==
    { [i \in 1..(U16_MAX - 12) |-> 0], [i \in 1..(U16_MAX - 11) |-> 0] }

LargeCtxs ==
    { Ctx(None, None, None),
      Ctx(Some(ForwardedNew(Some(A4a.ip), Some(A4a.port))), None, None),
      Ctx(None, Some(SocketInfoNew(A6c)), None) }

NextLarge ==
    \/ LayerTcp
    \/ LayerUdp
    \/ LayerV1
    \/ \E p \in LargePayloads : LayerPayload(p)
    \/ LayerLayer
    \/ \E c \in DOMAIN calls, ctx \in LargeCtxs, req \in ServeRequests :
            ProxyServe(c, ctx, req)
    \/ \E c \in DOMAIN calls, e \in InnerErrors : ProxyInnerErr(c, e)
    \/ \E c \in DOMAIN calls, req \in ProxyRequests, dst \in DstAddrs :
            ProxyInnerOk(c, "keep", req, dst)
    \/ \E c \in DOMAIN calls : ProxyWriteOk(c)
    \/ \E c \in DOMAIN calls, e \in IoErrors, n \in PartialWrites : ProxyWriteErr(c, e, n)
    \/ \E c \in DOMAIN calls, n \in PartialWrites : ProxyCancel(c, n)
    \/ \E c \in DOMAIN calls : Finish(c)

SpecLarge == Init /\ [][NextLarge]_vars

\* ------------------------------------------- the fingerprint number endpoints
\* get_api_fetch_number, get_api_xml_http_request_number and their POST
\* variants, each request a task of its own on one shared State.
GetEndpoints == { "get_api_fetch_number", "get_api_xml_http_request_number" }
PostEndpoints == { "post_api_fetch_number", "post_api_xml_http_request_number" }

\* the :number segment of the request path, as bytes: "7", "12", "x", "-1"
PathSegments == { << 55 >>, << 49, 50 >>, << 120 >>, << 45, 49 >> }

RECURSIVE DecimalValue(_)
\* the value of a sequence of decimal digits
DecimalValue(t) ==
    IF t = << >> THEN 0
    ELSE 10 * DecimalValue(SubSeq(t, 1, Len(t) - 1)) + (t[Len(t)] - 48)

\* Path::<APINumberParams>::from_request_parts: Some(number) for Ok(params),
\* None for Err(e), which the handlers only log
PathNumber(t) ==
    IF Len(t) > 0 /\ \A i \in 1..Len(t) : t[i] \in 48..57
    THEN Some(DecimalValue(t))
    ELSE None

\* faulty variant of FetchAdd: the value is written back unchanged
FetchAddLoadOnly(state, n) ==
    [prev |-> state.counter, state |-> state]

\* counter.fetch_add(n, SeqCst): one atomic read-modify-write that returns
\* the value it found
FetchAdd(state, n) ==
    [prev |-> state.counter, state |-> [state EXCEPT !.counter = @ + n]]

\* a GET handler runs up to get_request_info(..).await
FpGet(r, endpoint) ==
    /\ fp.requests[r].pc = "idle"
    /\ fp' = [fp EXCEPT !.requests[r] =
                [IdleRequest EXCEPT !.pc = "request_info", !.endpoint = endpoint]]
    /\ UNCHANGED << svc, calls, stack >>

\* a POST handler parses the path number, 0 when that fails, and runs up to
\* get_request_info(..).await
FpPost(r, endpoint, path) ==
    /\ fp.requests[r].pc = "idle"
    /\ LET parsed == PathNumber(path)
           number == IF IsSome(parsed) THEN Unwrap(parsed) ELSE 0
       IN  fp' = [fp EXCEPT !.requests[r] =
                [IdleRequest EXCEPT !.pc = "request_info", !.endpoint = endpoint,
                                    !.path = path, !.number = Some(number)]]
    /\ UNCHANGED << svc, calls, stack >>

\* get_request_info has resolved: the response is built, for a GET with the
\* number fetch_add returns
FpRespond(r) ==
    /\ fp.requests[r].pc = "request_info"
    /\ IF fp.requests[r].endpoint \in GetEndpoints
       THEN LET fa == FetchAdd(fp, 1)
            IN  fp' = [fa.state EXCEPT !.requests[r].pc = "done",
                                       !.requests[r].number = Some(fa.prev)]
       ELSE fp' = [fp EXCEPT !.requests[r].pc = "done"]
    /\ UNCHANGED << svc, calls, stack >>

NextFp ==
    \/ \E r \in RequestIds, e \in GetEndpoints : FpGet(r, e)
    \/ \E r \in RequestIds, e \in PostEndpoints, t \in PathSegments : FpPost(r, e, t)
    \/ \E r \in RequestIds : FpRespond(r)

SpecFp == Init /\ [][NextFp]_vars

\* ------------------------------------------------- reading a header back
\* The properties below decode what was written instead of re-encoding it.
RECURSIVE SplitOn(_, _)
\* the pieces of s between the occurrences of byte sep
SplitOn(s, sep) ==
    IF \A i \in 1..Len(s) : s[i] # sep THEN << s >>
    ELSE LET i == Min({ k \in 1..Len(s) : s[k] = sep })
         IN  << SubSeq(s, 1, i - 1) >> \o SplitOn(SubSeq(s, i + 1, Len(s)), sep)

IsDecDigits(t) == Len(t) > 0 /\ \A i \in 1..Len(t) : t[i] \in 48..57
IsHexDigits(t) ==
    Len(t) \in 1..4 /\ \A i \in 1..Len(t) : t[i] \in (48..57) \cup (97..102)
NoLeadingZero(t) == Len(t) = 1 \/ t[1] # 48

RECURSIVE ParseDec(_)
ParseDec(t) ==
    IF t = << >> THEN 0 ELSE 10 * ParseDec(SubSeq(t, 1, Len(t) - 1)) + (t[Len(t)] - 48)

HexValue(b) == IF b <= 57 THEN b - 48 ELSE b - 87

RECURSIVE ParseHex(_)
ParseHex(t) ==
    IF t = << >> THEN 0
    ELSE 16 * ParseHex(SubSeq(t, 1, Len(t) - 1)) + HexValue(t[Len(t)])

BadIp == [fam |-> "bad", parts |-> << >>]

\* a dotted quad, each octet decimal in 0..255 without leading zeros
ParseIpv4(t) ==
    LET p == SplitOn(t, 46)
    IN  IF /\ Len(p) = 4
           /\ \A i \in 1..4 : IsDecDigits(p[i]) /\ NoLeadingZero(p[i]) /\ ParseDec(p[i]) <= 255
        THEN IpV4(ParseDec(p[1]), ParseDec(p[2]), ParseDec(p[3]), ParseDec(p[4]))
        ELSE BadIp

\* colon-separated hex groups of s, or << -1 >> when one is malformed
HexGroups(s) ==
    IF s = << >> THEN << >>
    ELSE LET p == SplitOn(s, 58)
         IN  IF \A i \in 1..Len(p) : IsHexDigits(p[i])
             THEN [i \in 1..Len(p) |-> ParseHex(p[i])]
             ELSE << -1 >>

\* colon-hex with at most one "::" standing for the missing zero groups
ParseIpv6(t) ==
    LET gaps == { i \in 1..(Len(t) - 1) : t[i] = 58 /\ t[i + 1] = 58 }
    IN  IF gaps = {}
        THEN LET g == HexGroups(t)
             IN  IF Len(g) = 8 /\ \A i \in 1..8 : g[i] >= 0 THEN IpV6(g) ELSE BadIp
        ELSE LET i == Min(gaps)
                 l == HexGroups(SubSeq(t, 1, i - 1))
                 r == HexGroups(SubSeq(t, i + 2, Len(t)))
                 n == 8 - Len(l) - Len(r)
             IN  IF /\ Cardinality(gaps) = 1 /\ n >= 1
                    /\ \A k \in 1..Len(l) : l[k] >= 0
                    /\ \A k \in 1..Len(r) : r[k] >= 0
                 THEN IpV6(l \o [k \in 1..n |-> 0] \o r)
                 ELSE BadIp

\* the fields of a v1 line, or a line of "bad" fields when it is malformed
V1Parse(line) ==
    LET n == Len(line)
        t == SplitOn(SubSeq(line, 1, n - 2), 32)
        bad == [family |-> "bad", src |-> Sock(BadIp, -1), dst |-> Sock(BadIp, -1)]
    IN  IF n < 2 \/ SubSeq(line, n - 1, n) # << 13, 10 >> THEN bad
        ELSE IF Len(t) # 6 \/ t[1] # << 80, 82, 79, 88, 89 >> THEN bad
        ELSE IF ~(\A i \in 5..6 : IsDecDigits(t[i]) /\ NoLeadingZero(t[i])) THEN bad
        ELSE IF t[2] = << 84, 67, 80, 52 >>
        THEN [family |-> "TCP4", src |-> Sock(ParseIpv4(t[3]), ParseDec(t[5])),
              dst |-> Sock(ParseIpv4(t[4]), ParseDec(t[6]))]
        ELSE IF t[2] = << 84, 67, 80, 54 >>
        THEN [family |-> "TCP6", src |-> Sock(ParseIpv6(t[3]), ParseDec(t[5])),
              dst |-> Sock(ParseIpv6(t[4]), ParseDec(t[6]))]
        ELSE bad

RECURSIVE SegmentsOf(_)
\* big-endian 16-bit groups of a byte string of even length
SegmentsOf(b) ==
    IF b = << >> THEN << >>
    ELSE << 256 * b[1] + b[2] >> \o SegmentsOf(SubSeq(b, 3, Len(b)))

\* the fields of a v2 header: byte 13 version/command, byte 14
\* family/protocol, bytes 15-16 length, then the address block and the rest
V2Parse(h) ==
    LET fam == h[14] \div 16
        alen == IF fam = 1 THEN 4 ELSE 16
        ip(b) == IF fam = 1 THEN [fam |-> "V4", parts |-> b] ELSE IpV6(SegmentsOf(b))
        at(i, k) == SubSeq(h, 16 + i, 16 + i + k - 1)
    IN  [signature |-> SubSeq(h, 1, 12),
         version |-> h[13] \div 16, command |-> h[13] % 16,
         family |-> fam, protocol |-> h[14] % 16,
         length |-> 256 * h[15] + h[16],
         src |-> Sock(ip(at(1, alen)), 256 * at(2 * alen + 1, 1)[1] + at(2 * alen + 2, 1)[1]),
         dst |-> Sock(ip(at(alen + 1, alen)),
                      256 * at(2 * alen + 3, 1)[1] + at(2 * alen + 4, 1)[1]),
         rest |-> SubSeq(h, 16 + 2 * alen + 5, Len(h))]

\* ------------------------------------------------ vocabulary of the claims
ProxyCalls == IF svc.kind = "haproxy" THEN DOMAIN calls ELSE {}
UaCalls == IF svc.kind = "ua" THEN DOMAIN calls ELSE {}
IsV1 == svc.version.tag = "One"

\* the inner service has returned a connection to call c
HasConn(c) == IsSome(calls[c].conn)
ConnOf(c) == Unwrap(calls[c].conn)
Returned(c) == calls[c].pc = "done"
Succeeded(c) == Returned(c) /\ Unwrap(calls[c].result).ok
Failed(c) == Returned(c) /\ ~Unwrap(calls[c].result).ok
ErrorOf(c) == Unwrap(calls[c].result).err

\* all bytes on the connection of c, in the order they were written
RECURSIVE Flatten(_)
Flatten(w) == IF w = << >> THEN << >> ELSE Head(w).bytes \o Flatten(Tail(w))
BytesOn(c) == Flatten(ConnOf(c).wlog)

\* the context the inner service returned holds a Forwarded with both an
\* IP and a port for its client
FwdYieldsAddr(ctx) ==
    IsSome(ctx.fwd) /\ IsSome(Unwrap(ctx.fwd).for_ip) /\ IsSome(Unwrap(ctx.fwd).for_port)
FwdAddr(ctx) == Sock(Unwrap(Unwrap(ctx.fwd).for_ip), Unwrap(Unwrap(ctx.fwd).for_port))

\* call c has written its header in full
HeaderWritten(c) == HasConn(c) /\ Succeeded(c)
\* the source and destination the written header of c encodes
WrittenSrc(c) ==
    IF IsV1 THEN V1Parse(ConnOf(c).wlog[1].bytes).src
    ELSE V2Parse(ConnOf(c).wlog[1].bytes).src
WrittenDst(c) ==
    IF IsV1 THEN V1Parse(ConnOf(c).wlog[1].bytes).dst
    ELSE V2Parse(ConnOf(c).wlog[1].bytes).dst

\* the source serve is to announce for a context: the Forwarded client
\* address when there is one, else the SocketInfo peer
HasSource(ctx) == FwdYieldsAddr(ctx) \/ IsSome(ctx.sock)
SourceOf(ctx) ==
    IF FwdYieldsAddr(ctx) THEN FwdAddr(ctx) ELSE Unwrap(ctx.sock).peer
MissingSrcMessages ==
    { "PROXY client (v1): missing src socket address",
      "PROXY client (v2): missing src socket address" }

\* ------------------------------------------------------------------ claims

\* C1: when the context the inner service returned holds both a Forwarded
\* extension that yields a client socket address and a SocketInfo, the source
\* address and port in the written header (v1 and v2) are those of the
\* Forwarded client address and not those of SocketInfo.
C1_ForwardedWins ==
    \A c \in ProxyCalls :
        (HeaderWritten(c) /\ FwdYieldsAddr(calls[c].ctx) /\ IsSome(calls[c].ctx.sock))
            => /\ WrittenSrc(c) = FwdAddr(calls[c].ctx)
               /\ WrittenSrc(c) # Unwrap(calls[c].ctx.sock).peer

C1_Witness ==
    \E c \in ProxyCalls :
        /\ HeaderWritten(c) /\ ~IsV1
        /\ FwdYieldsAddr(calls[c].ctx) /\ IsSome(calls[c].ctx.sock)
        /\ FwdAddr(calls[c].ctx).ip.fam # Unwrap(calls[c].ctx.sock).peer.ip.fam

\* C2: when the context holds no Forwarded extension, or one that yields no
\* client socket address, and holds a SocketInfo, serve does not fail for a
\* missing source and the source in the written header is the SocketInfo
\* peer address.
C2_SocketInfoFallback ==
    \A c \in ProxyCalls :
        (HasConn(c) /\ ~FwdYieldsAddr(calls[c].ctx) /\ IsSome(calls[c].ctx.sock))
            => /\ Failed(c) => ErrorOf(c).cause \notin MissingSrcMessages
               /\ HeaderWritten(c) => WrittenSrc(c) = Unwrap(calls[c].ctx.sock).peer

C2_Witness ==
    \E c \in ProxyCalls :
        /\ HeaderWritten(c) /\ IsV1
        /\ IsSome(calls[c].ctx.fwd) /\ ~FwdYieldsAddr(calls[c].ctx)
        /\ IsSome(calls[c].ctx.sock)

\* C3: when the inner service succeeded and the context yields neither a
\* Forwarded client socket address nor a SocketInfo, serve (v1, v2/TCP,
\* v2/UDP) returns the error "PROXY client (vN): missing src socket address"
\* with N the version, and no byte is written to the connection.
C3_MissingSource ==
    \A c \in ProxyCalls :
        (HasConn(c) /\ ~HasSource(calls[c].ctx))
            => /\ Failed(c)
               /\ ErrorOf(c) =
                    [context |-> << >>,
                     cause |-> IF IsV1
                               THEN "PROXY client (v1): missing src socket address"
                               ELSE "PROXY client (v2): missing src socket address"]
               /\ BytesOn(c) = << >>
               /\ calls[c].writes = 0

C3_Witness ==
    \E c \in ProxyCalls :
        /\ HasConn(c) /\ ~HasSource(calls[c].ctx) /\ Failed(c)
        /\ svc.proto = "Udp"
        /\ IsSome(calls[c].ctx.fwd)

\* C4: a header is written only when the resolved source and the
\* connection's peer address are of one IP family; when the families differ
\* serve returns an error and no byte is written to the connection.
C4_SameFamilyOnly ==
    \A c \in ProxyCalls :
        (HasConn(c) /\ HasSource(calls[c].ctx))
            => LET src == SourceOf(calls[c].ctx)
                   dst == ConnOf(c).addr
               IN  /\ src.ip.fam # dst.ip.fam
                        => Failed(c) /\ BytesOn(c) = << >> /\ calls[c].writes = 0
                   /\ (calls[c].pc = "write" \/ BytesOn(c) # << >>)
                        => src.ip.fam = dst.ip.fam
                   /\ HeaderWritten(c)
                        => /\ WrittenSrc(c).ip.fam = WrittenDst(c).ip.fam
                           /\ WrittenSrc(c).ip.fam \in { "V4", "V6" }

C4_Witness ==
    \E c \in ProxyCalls :
        /\ HasConn(c) /\ FwdYieldsAddr(calls[c].ctx) /\ IsV1 /\ Failed(c)
        /\ FwdAddr(calls[c].ctx).ip.fam = "V6" /\ ConnOf(c).addr.ip.fam = "V4"

\* C5: when the inner connect service returns an error, serve returns that
\* error, boxed and otherwise as it was, reports no failure of its own and
\* writes nothing to any connection.
C5_InnerFailure ==
    \A c \in ProxyCalls :
        IsSome(calls[c].innerErr)
            => /\ Failed(c)
               /\ ErrorOf(c) = [context |-> << >>, cause |-> Unwrap(calls[c].innerErr)]
               /\ ~HasConn(c)
               /\ calls[c].writes = 0

C5_Witness ==
    \E c \in ProxyCalls :
        /\ IsSome(calls[c].innerErr) /\ Failed(c)
        /\ ~HasSource(calls[c].in_ctx)

\* C6: a serve call of a layered service (PROXY client v1 or v2, User-Agent
\* classifier) that returns success has invoked the inner service exactly
\* once.
C6_InnerInvokedOnce ==
    \A c \in ProxyCalls \cup UaCalls : Succeeded(c) => calls[c].innerCalls = 1

C6_Witness ==
    /\ \E c \in ProxyCalls : Succeeded(c) /\ IsV1
    /\ svc.stage = "service"

\* C7: the complete header is the first thing written on the connection: the
\* caller holds the connection only after serve succeeded, the first write is
\* then the whole header, and every application write comes after it.
C7_HeaderFirst ==
    \A c \in ProxyCalls :
        HasConn(c)
            => LET w == ConnOf(c).wlog
                   header == Encode(calls[c].ctx, ConnOf(c).addr)
               IN  /\ (ConnOf(c).holder = "caller" \/ \E i \in 1..Len(w) : w[i].by = "app")
                        => /\ Succeeded(c)
                           /\ Len(w) >= 1
                           /\ header.tag = "write"
                           /\ w[1] = [by |-> "proxy", bytes |-> header.bytes]
                   /\ \A i \in 1..Len(w) : w[i].by = "app" => i > 1

C7_Witness ==
    \E c \in ProxyCalls :
        /\ HasConn(c) /\ Len(ConnOf(c).wlog) = 2
        /\ ConnOf(c).wlog[1].by = "proxy" /\ ConnOf(c).wlog[2].by = "app"

\* C8: on success serve returns the context and the request the inner
\* service returned, unmodified, and the connection with one effect on it,
\* the single write of the header: it was not read from and is not closed.
C8_ReturnsWhatInnerReturned ==
    \A c \in ProxyCalls :
        Succeeded(c)
            => /\ Unwrap(calls[c].result).ctx = calls[c].ctx
               /\ Unwrap(calls[c].result).req = calls[c].req
               /\ HasConn(c)
               /\ ConnOf(c).holder = "caller"
               /\ ConnOf(c).reads = 0
               /\ calls[c].writes = 1
               /\ Cardinality({ i \in 1..Len(ConnOf(c).wlog) :
                                    ConnOf(c).wlog[i].by = "proxy" }) = 1

C8_Witness ==
    \E c \in ProxyCalls :
        /\ Succeeded(c)
        /\ calls[c].ctx # calls[c].in_ctx
        /\ calls[c].req # calls[c].in_req

\* C9: for a source and destination of one family the v1 service writes
\* exactly one line "PROXY " family " " src-ip " " dst-ip " " src-port " "
\* dst-port "\r\n", family TCP4 for two IPv4 and TCP6 for two IPv6
\* addresses, the ports in decimal without leading zeros, at most 107 bytes.
C9_V1Line ==
    \A c \in ProxyCalls :
        (IsV1 /\ HeaderWritten(c))
            => LET w == ConnOf(c).wlog
                   line == w[1].bytes
                   p == V1Parse(line)
                   src == SourceOf(calls[c].ctx)
                   dst == ConnOf(c).addr
               IN  /\ Cardinality({ i \in 1..Len(w) : w[i].by = "proxy" }) = 1
                   /\ p.family = IF src.ip.fam = "V4" /\ dst.ip.fam = "V4"
                                 THEN "TCP4" ELSE "TCP6"
                   /\ src.ip.fam = dst.ip.fam
                   /\ p.src = src
                   /\ p.dst = dst
                   /\ Len(line) <= 107
                   /\ \A i \in 1..Len(line) : line[i] < 128
                   /\ \A i \in 1..(Len(line) - 2) : line[i] \notin { 13, 10 }

C9_Witness ==
    \E c \in ProxyCalls :
        /\ IsV1 /\ HeaderWritten(c)
        /\ Len(ConnOf(c).wlog[1].bytes) = 104

\* C10: in every v2 header written, the big-endian 16-bit length field in
\* bytes 15-16 is the length of the address block (12 for IPv4, 36 for IPv6)
\* plus the length of the configured payload, and is the number of bytes
\* that follow the length field.
C10_V2Length ==
    \A c \in ProxyCalls :
        (~IsV1 /\ HeaderWritten(c))
            => LET h == ConnOf(c).wlog[1].bytes
                   payload == IF IsSome(svc.version.payload)
                              THEN Len(Unwrap(svc.version.payload)) ELSE 0
                   block == IF ConnOf(c).addr.ip.fam = "V4" THEN 12 ELSE 36
               IN  /\ Len(h) >= 16
                   /\ 256 * h[15] + h[16] = block + payload
                   /\ 256 * h[15] + h[16] = Len(h) - 16

C10_Witness ==
    \E c \in ProxyCalls :
        /\ ~IsV1 /\ HeaderWritten(c)
        /\ ConnOf(c).addr.ip.fam = "V6"
        /\ IsSome(svc.version.payload) /\ Len(Unwrap(svc.version.payload)) = 2

\* C11: every byte stream the v2 service writes begins with the signature
\* 0D 0A 0D 0A 00 0D 0A 51 55 49 54 0A, and its 13th byte is 0x21: high
\* nibble 2 (version), low nibble 1 (command Proxy, never Local).
C11_V2SignatureAndCommand ==
    \A c \in ProxyCalls :
        (~IsV1 /\ HasConn(c))
            => LET b == BytesOn(c)
                   expected == << 13, 10, 13, 10, 0, 13, 10, 81, 85, 73, 84, 10, 33 >>
               IN  /\ \A i \in 1..Len(b) : i <= 13 => b[i] = expected[i]
                   /\ HeaderWritten(c)
                        => /\ Len(b) >= 13
                           /\ b[13] \div 16 = 2
                           /\ b[13] % 16 = 1

C11_Witness ==
    \E c \in ProxyCalls :
        /\ ~IsV1 /\ HeaderWritten(c) /\ svc.proto = "Udp"
        /\ Len(BytesOn(c)) > 13

\* C12: after the signature and 0x21 the v2 service writes one byte with the
\* family in the high nibble (1 IPv4, 2 IPv6) and the protocol in the low
\* nibble (1 Stream for tcp(), 2 Datagram for udp()), the length, the source
\* IP, the destination IP, the source port and the destination port
\* (big-endian), then the payload bytes as configured and nothing else.
C12_V2Body ==
    \A c \in ProxyCalls :
        (~IsV1 /\ HeaderWritten(c))
            => LET h == ConnOf(c).wlog[1].bytes
                   p == V2Parse(h)
                   src == SourceOf(calls[c].ctx)
                   dst == ConnOf(c).addr
                   payload == IF IsSome(svc.version.payload)
                              THEN Unwrap(svc.version.payload) ELSE << >>
               IN  /\ p.family = IF dst.ip.fam = "V4" THEN 1 ELSE 2
                   /\ p.protocol = IF svc.proto = "Tcp" THEN 1 ELSE 2
                   /\ p.src = src
                   /\ p.dst = dst
                   /\ p.rest = payload
                   /\ Len(h) = 16 + (IF dst.ip.fam = "V4" THEN 12 ELSE 36) + Len(payload)

C12_Witness ==
    \E c \in ProxyCalls :
        /\ ~IsV1 /\ HeaderWritten(c) /\ svc.proto = "Udp"
        /\ ConnOf(c).addr.ip.fam = "V6"
        /\ svc.version.payload = Some(<< 42, 255 >>)

\* C14: a payload attached before the downgrade v1(), on the layer or on the
\* service, is discarded: the v1 service holds no payload and writes only the
\* text line, the bytes it writes for the same source and destination when no
\* payload was ever attached, and the downgrade itself fails nothing.
C14_V1DiscardsPayload ==
    /\ (svc.kind = "haproxy" /\ svc.version.tag = "One")
          => svc.version = VersionOne
    /\ \A c \in ProxyCalls :
          /\ (IsV1 /\ HeaderWritten(c))
                => LET line == ConnOf(c).wlog[1].bytes
                       src == SourceOf(calls[c].ctx)
                       dst == ConnOf(c).addr
                   IN  /\ line = V1ToString(IF dst.ip.fam = "V4"
                                            THEN V1NewTcp4(src.ip, dst.ip, src.port, dst.port)
                                            ELSE V1NewTcp6(src.ip, dst.ip, src.port, dst.port))
                       /\ SubSeq(line, Len(line) - 1, Len(line)) = << 13, 10 >>
          /\ (IsV1 /\ Failed(c))
                => ErrorOf(c).context
                     \notin { << "PROXY client (v2): write custom binary payload to to header" >>,
                              << "PROXY client (v2): encode header" >> }

C14_Witness ==
    \E c \in ProxyCalls :
        /\ IsV1 /\ HeaderWritten(c) /\ Succeeded(c)
        /\ svc.attached = Some(<< 255, 42 >>)

\* C15: no sequence of HaProxyLayer::tcp, udp, v1, payload, layer and
\* HaProxyService::tcp, udp, v1, payload yields a value with transport UDP
\* and version One; a step that turns another version into One starts from
\* (TCP, Two).
C15_NoUdpV1 ==
    /\ [](~(svc.kind = "haproxy" /\ svc.proto = "Udp" /\ svc.version.tag = "One"))
    /\ [][(/\ svc'.kind = "haproxy" /\ svc'.version.tag = "One"
            /\ ~(svc.kind = "haproxy" /\ svc.version.tag = "One"))
            => (svc.kind = "haproxy" /\ svc.proto = "Tcp" /\ svc.version.tag = "Two")]_vars

C15_Witness ==
    /\ svc.kind = "haproxy" /\ svc.stage = "service"
    /\ svc.proto = "Tcp" /\ svc.version.tag = "One"
    /\ \E c \in ProxyCalls : Returned(c)

\* a call that failed in write_all: the only failure after a write attempt
WriteFailed(c) == Failed(c) /\ calls[c].writes > 0

\* C16 as stated: when write_all fails, serve returns an error with the
\* context "PROXY client (vN): write header", N = 1 for the v1 service and
\* N = 2 for the v2 service, and does not return the connection.
C16_WriteHeaderContext ==
    \A c \in ProxyCalls :
        WriteFailed(c)
            => /\ ErrorOf(c).context =
                    << IF IsV1 THEN "PROXY client (v1): write header"
                       ELSE "PROXY client (v2): write header" >>
               /\ ErrorOf(c).cause \in IoErrors
               /\ ConnOf(c).holder = "dropped"

\* C16, amended: when write_all fails, serve returns the I/O error with the
\* context "PROXY client (v1): write addresses" for the v1 service and
\* "PROXY client (v2): write header" for the v2 service, and does not return
\* the connection.
C16_WriteContext ==
    \A c \in ProxyCalls :
        WriteFailed(c)
            => /\ ErrorOf(c).context =
                    << IF IsV1 THEN "PROXY client (v1): write addresses"
                       ELSE "PROXY client (v2): write header" >>
               /\ ErrorOf(c).cause \in IoErrors
               /\ ConnOf(c).holder = "dropped"

C16_Witness ==
    \E c \in ProxyCalls : IsV1 /\ WriteFailed(c) /\ BytesOn(c) # << >>

\* C17: no step is retried: in every state of a call the inner service has
\* been invoked at most once and write_all attempted at most once, and a call
\* that failed ended after exactly one inner invocation, with no write
\* attempt unless the failure is that of the one write.
C17_NoRetry ==
    \A c \in ProxyCalls :
        /\ calls[c].innerCalls <= 1
        /\ calls[c].writes <= 1
        /\ HasConn(c)
              => Len(SelectSeq(ConnOf(c).wlog, LAMBDA w : w.by = "proxy")) <= 1
        /\ Failed(c)
              => /\ calls[c].innerCalls = 1
                 /\ IsSome(calls[c].innerErr) => (~HasConn(c) /\ calls[c].writes = 0)
                 /\ calls[c].writes = 1 => ErrorOf(c).cause \in IoErrors

C17_Witness ==
    \E c \in ProxyCalls :
        /\ Failed(c) /\ calls[c].writes = 1 /\ calls[c].innerCalls = 1
        /\ Len(BytesOn(c)) = 16

\* C18: when serve returns an error after the inner service produced a
\* connection, the connection is dropped inside the call and never handed to
\* the caller: the caller holds a connection exactly when serve returned
\* success.
C18_ConnOnlyOnSuccess ==
    \A c \in ProxyCalls :
        /\ Succeeded(c) => (HasConn(c) /\ ConnOf(c).holder = "caller")
        /\ HasConn(c)
              => /\ ConnOf(c).holder = "caller" <=> Succeeded(c)
                 /\ Failed(c) => ConnOf(c).holder = "dropped"
                 /\ ConnOf(c).holder = "dropped" => calls[c].appWrites = 0

C18_Witness ==
    \E c \in ProxyCalls :
        /\ Failed(c) /\ HasConn(c) /\ ConnOf(c).holder = "dropped"
        /\ calls[c].writes = 0

Cancelled(c) == calls[c].pc = "cancelled"

\* C19: a call cancelled before any header byte went out leaves no
\* connection or a dropped one with zero header bytes on it; a connection is
\* held by the caller only after a successful serve that wrote the whole
\* header; and cancellation takes effect only at the await of the inner
\* service and at the await of write_all.
C19_Cancellation ==
    /\ [](\A c \in ProxyCalls :
            /\ Cancelled(c)
                  => /\ calls[c].result = None
                     /\ calls[c].writes = 0 => ~HasConn(c)
                     /\ HasConn(c)
                          => /\ ConnOf(c).holder = "dropped"
                             /\ Len(BytesOn(c)) < Len(Encode(calls[c].ctx, ConnOf(c).addr).bytes)
                             /\ calls[c].appWrites = 0
            /\ (HasConn(c) /\ ConnOf(c).holder = "caller")
                  => /\ Succeeded(c)
                     /\ ConnOf(c).wlog # << >>
                     /\ ConnOf(c).wlog[1] =
                            [by |-> "proxy",
                             bytes |-> Encode(calls[c].ctx, ConnOf(c).addr).bytes])
    /\ [][\A c \in ProxyCalls :
            (calls'[c].pc = "cancelled" /\ calls[c].pc # "cancelled")
                => /\ calls[c].pc \in { "inner", "write" }
                   /\ calls[c].pc = "inner" => ~IsSome(calls'[c].conn)]_vars

C19_Witness ==
    \E c \in ProxyCalls :
        /\ Cancelled(c) /\ HasConn(c) /\ calls[c].writes = 1
        /\ BytesOn(c) = << >> /\ ConnOf(c).holder = "dropped"

\* the value the length field of the v2 header of call c has to hold
DeclaredLength(c) ==
    (IF ConnOf(c).addr.ip.fam = "V4" THEN 12 ELSE 36)
        + (IF IsSome(svc.version.payload) THEN Len(Unwrap(svc.version.payload)) ELSE 0)

\* the v2 service got a connection and has both addresses, of one family
V2Encodable(c) ==
    /\ ~IsV1 /\ HasConn(c) /\ HasSource(calls[c].ctx)
    /\ SourceOf(calls[c].ctx).ip.fam = ConnOf(c).addr.ip.fam

\* C13: when the payload makes the declared length exceed 65535 the v2 serve
\* returns an encode error and no byte is written to the connection; a header
\* that is written or about to be written holds its true length, never a
\* truncated or wrapped one.
C13_LengthLimit ==
    \A c \in ProxyCalls :
        V2Encodable(c)
            => /\ DeclaredLength(c) > 65535
                    => /\ calls[c].pc = "done"
                       /\ Failed(c)
                       /\ ErrorOf(c).context
                            \in { << "PROXY client (v2): encode header" >>,
                                  << "PROXY client (v2): write custom binary payload to to header" >> }
                       /\ ConnOf(c).wlog = << >>
                       /\ ConnOf(c).holder = "dropped"
                       /\ calls[c].writes = 0
               /\ DeclaredLength(c) <= 65535
                    => LET h == IF calls[c].pc = "write" THEN calls[c].hdr
                                ELSE IF HeaderWritten(c) THEN ConnOf(c).wlog[1].bytes
                                ELSE Encode(calls[c].ctx, ConnOf(c).addr).bytes
                       IN  /\ Len(h) = 16 + DeclaredLength(c)
                           /\ h[15] \in 0..255 /\ h[16] \in 0..255
                           /\ h[15] * 256 + h[16] = DeclaredLength(c)

C13_Witness ==
    \E c \in ProxyCalls :
        /\ V2Encodable(c) /\ DeclaredLength(c) = 65536
        /\ Failed(c) /\ ConnOf(c).wlog = << >>

\* the largest header the field can describe is written in full
C13_WitnessAtLimit ==
    \E c \in ProxyCalls :
        /\ V2Encodable(c) /\ DeclaredLength(c) = 65535
        /\ Succeeded(c) /\ Len(ConnOf(c).wlog[1].bytes) = 65551

\* the layers of a layer value in the order the claim gives them: A before B
\* for the pair (A, B)
RECURSIVE Atoms(_)
Atoms(layer) ==
    IF layer.kind = "Tuple" THEN Atoms(layer.parts[1]) \o Atoms(layer.parts[2])
    ELSE << layer >>
RECURSIVE AtomsOfAll(_)
AtomsOfAll(layers) ==
    IF layers = << >> THEN << >>
    ELSE Atoms(Head(layers)) \o AtomsOfAll(Tail(layers))

StackPreSteps == SelectSeq(stack.trace, LAMBDA t : t.phase = "pre")
StackPostSteps == SelectSeq(stack.trace, LAMBDA t : t.phase = "post")

\* C20: stacking [A, B] onto L yields A(B(L)): the service wraps the leaf in
\* the layers in the order they were stacked, outermost first; within one
\* request pre-processing runs in that order, each layer and the leaf seeing
\* the context and request as the layer outside left them, and
\* post-processing in the reverse order; in the stack
\* (AddRequiredRequestHeadersLayer, UserAgentClassifierLayer) the classifier
\* puts into the context the User-Agent header the outer layer added.
C20_OutermostFirst ==
    stack.pc # "build"
        => LET service == Unwrap(stack.service)
               n == Len(service)
               pre == StackPreSteps
               post == StackPostSteps
               input == [ctx |-> stack.in_ctx, req |-> stack.in_req]
           IN  /\ service = AtomsOfAll(stack.pushed)
               /\ \A k \in 1..Len(pre) :
                     /\ k <= n /\ pre[k].layer = service[k]
                     /\ pre[k].saw = IF k = 1 THEN input ELSE pre[k - 1].gave
               /\ \A k \in 1..Len(post) :
                     k <= n /\ post[k].layer = service[n + 1 - k]
               /\ IsSome(stack.seen)
                     => /\ Len(pre) = n
                        /\ Unwrap(stack.seen) = IF n = 0 THEN input ELSE pre[n].gave
                        /\ stack.trace = pre \o post
               /\ (/\ AtomsOfAll(stack.pushed)
                        = << AddRequiredRequestHeadersLayer, UserAgentClassifierLayer(None) >>
                   /\ IsSome(stack.seen)
                   /\ ~IsSome(stack.in_req.user_agent))
                     => /\ Unwrap(stack.seen).req.user_agent = Some(RamaUserAgent)
                        /\ Unwrap(stack.seen).ctx.ua = Some(UserAgentNew(RamaUserAgent))

C20_Witness ==
    /\ stack.pushed = << AddRequiredRequestHeadersLayer, UserAgentClassifierLayer(None) >>
    /\ stack.pc = "done"
    /\ ~IsSome(stack.in_req.user_agent) /\ ~IsSome(stack.in_ctx.ua)
    /\ Unwrap(stack.seen).ctx.ua = Some(UserAgentNew("{NAME}/{VERSION}"))
    /\ Len(stack.trace) = 4

\* "x then y" as one layer value: the tuple (x, y), or the Stack with y as
\* the inner and x as the outer layer
Then(kind, x, y) == IF kind = "Tuple" THEN Tuple(x, y) ELSE StackNew(y, x)

\* every way of composing the layers of a sequence, in their order, by Then
RECURSIVE Groupings(_, _)
Groupings(kind, layers) ==
    IF Len(layers) = 1 THEN { layers[1] }
    ELSE UNION { { Then(kind, x, y) :
                     x \in Groupings(kind, SubSeq(layers, 1, k)),
                     y \in Groupings(kind, SubSeq(layers, k + 1, Len(layers))) } :
                 k \in 1..(Len(layers) - 1) }

\* the steps of one request through a service and what reaches the leaf
RECURSIVE PreStepsOf(_, _, _)
PreStepsOf(service, ctx, req) ==
    IF service = << >> THEN << >>
    ELSE LET out == LayerPre(Head(service), ctx, req)
         IN  << [phase |-> "pre", layer |-> Head(service),
                 saw |-> [ctx |-> ctx, req |-> req], gave |-> out] >>
                \o PreStepsOf(Tail(service), out.ctx, out.req)
BehaviourOf(service, ctx, req) ==
    LET pre == PreStepsOf(service, ctx, req)
        n == Len(service)
        seen == IF n = 0 THEN [ctx |-> ctx, req |-> req] ELSE pre[n].gave
    IN  [seen |-> seen,
         trace |-> pre \o [k \in 1..n |->
                              [phase |-> "post", layer |-> service[n + 1 - k],
                               saw |-> seen, gave |-> seen]]]

\* C21: stack composition is associative: whatever way the layers that were
\* stacked are grouped, as (A then B) then C or as A then (B then C), by
\* tuples or by Stack, the service built of the grouping is the service that
\* was built, and a request runs through the same pre- and post-processing
\* steps to the same result.
C21_StackAssociative ==
    (stack.pc # "build" /\ stack.pushed # << >>)
        => \A kind \in { "Tuple", "Stack" } :
             \A g \in Groupings(kind, AtomsOfAll(stack.pushed)) :
                LET regrouped == ApplyLayer(g, << >>)
                    b == BehaviourOf(regrouped, stack.in_ctx, stack.in_req)
                IN  /\ regrouped = Unwrap(stack.service)
                    /\ stack.pc # "ready"
                          => /\ Len(stack.trace) <= Len(b.trace)
                             /\ stack.trace = SubSeq(b.trace, 1, Len(stack.trace))
                             /\ IsSome(stack.seen) => Unwrap(stack.seen) = b.seen
                    /\ stack.pc = "done" => stack.trace = b.trace

C21_Witness ==
    /\ stack.pushed = << Tuple(AddRequiredRequestHeadersLayer,
                               UserAgentClassifierLayer(Some("x-ua-overwrite"))),
                         UserAgentClassifierLayer(None) >>
    /\ stack.pc = "done"
    /\ Len(stack.trace) = 6
    /\ Unwrap(stack.seen).ctx.ua # stack.in_ctx.ua

\* a call of the classifier that has reached its inner service
UaForwarded(c) == calls[c].pc \in { "inner", "done" }
\* the request of c carries a valid User-Agent header
UaHeaderPresent(c) == IsSome(calls[c].in_req.user_agent)
\* the request of c carries the header the layer is configured with, and its
\* value parses as overwrites
UaOverwritePresent(c) ==
    /\ IsSome(svc.overwrite_header)
    /\ calls[c].in_req.header_name = svc.overwrite_header
    /\ Unwrap(calls[c].in_req.header_value).parses
UaOverwriteOf(c) == Unwrap(calls[c].in_req.header_value)
UaOverwriteSuppliesUa(c) == UaOverwritePresent(c) /\ IsSome(UaOverwriteOf(c).ua)

\* C22: the classifier inserts a UserAgent into the context it passes to the
\* inner service exactly when the request carries a valid User-Agent header
\* or the configured overwrite header supplies ua; without overwrite the
\* UserAgent's header string is the value of the request's User-Agent header;
\* when neither is present the context is forwarded unchanged.
C22_UaInsertedIff ==
    \A c \in UaCalls :
        UaForwarded(c)
            => LET in == calls[c].in_ctx
                   out == calls[c].ctx
               IN  /\ (UaHeaderPresent(c) \/ UaOverwriteSuppliesUa(c))
                          <=> (IsSome(out.ua) /\ out.ua # in.ua)
                   /\ (UaHeaderPresent(c) /\ ~UaOverwritePresent(c))
                          => out.ua = Some([header_str |-> Unwrap(calls[c].in_req.user_agent),
                                            http_agent |-> None, tls_agent |-> None,
                                            preserve_ua_header |-> FALSE])
                   /\ ~(UaHeaderPresent(c) \/ UaOverwriteSuppliesUa(c)) => out = in
                   /\ out.fwd = in.fwd /\ out.sock = in.sock

C22_Witness ==
    \E c \in UaCalls :
        /\ UaForwarded(c) /\ UaHeaderPresent(c) /\ ~IsSome(svc.overwrite_header)
        /\ IsSome(calls[c].in_ctx.ua)
        /\ Unwrap(calls[c].ctx.ua).header_str = "ua-header"

\* C23: when the layer is configured with an overwrite header and the request
\* carries it with a parseable value that contains ua, the UserAgent the
\* inner service sees has that ua as its header string, also when the request
\* has another User-Agent header, and the http, tls and preserve_ua of the
\* same overwrite are applied to it.
C23_OverwriteUa ==
    \A c \in UaCalls :
        (UaForwarded(c) /\ UaOverwriteSuppliesUa(c))
            => LET o == UaOverwriteOf(c)
               IN  /\ IsSome(calls[c].ctx.ua)
                   /\ Unwrap(calls[c].ctx.ua).header_str = Unwrap(o.ua)
                   /\ Unwrap(calls[c].ctx.ua).http_agent = o.http
                   /\ Unwrap(calls[c].ctx.ua).tls_agent = o.tls
                   /\ Unwrap(calls[c].ctx.ua).preserve_ua_header
                          = (IsSome(o.preserve_ua) /\ Unwrap(o.preserve_ua))

C23_Witness ==
    \E c \in UaCalls :
        /\ UaForwarded(c) /\ UaOverwriteSuppliesUa(c)
        /\ calls[c].in_req.user_agent = Some("ua-header")
        /\ calls[c].ctx.ua =
              Some([header_str |-> "ua-overwrite", http_agent |-> Some("Chromium"),
                    tls_agent |-> Some("Rustls"), preserve_ua_header |-> TRUE])

\* C30: overwrite data creates no UserAgent unless it supplies ua: with no
\* User-Agent header and an overwrite of http, tls or preserve_ua only, the
\* values are discarded and no UserAgent is inserted; an overwrite header
\* that is not configured on the layer, or whose value does not parse, is
\* ignored; in every case the request is forwarded to the inner service.
C30_OverwriteWithoutUa ==
    \A c \in UaCalls :
        calls[c].pc # "idle"
            => /\ UaForwarded(c) /\ calls[c].innerCalls = 1
               /\ calls[c].req = calls[c].in_req
               /\ (~UaHeaderPresent(c) /\ UaOverwritePresent(c)
                        /\ ~IsSome(UaOverwriteOf(c).ua))
                     => calls[c].ctx = calls[c].in_ctx
               /\ ~UaOverwritePresent(c)
                     => calls[c].ctx.ua =
                            IF UaHeaderPresent(c)
                            THEN Some([header_str |-> Unwrap(calls[c].in_req.user_agent),
                                       http_agent |-> None, tls_agent |-> None,
                                       preserve_ua_header |-> FALSE])
                            ELSE calls[c].in_ctx.ua

C30_Witness ==
    \E c \in UaCalls :
        /\ UaForwarded(c) /\ ~UaHeaderPresent(c) /\ UaOverwritePresent(c)
        /\ UaOverwriteOf(c).ua = None
        /\ UaOverwriteOf(c).http = Some("Chromium")
        /\ UaOverwriteOf(c).preserve_ua = Some(TRUE)
        /\ ~IsSome(calls[c].ctx.ua)

\* C24: the source is the Forwarded client address even when that makes the
\* call fail: when its IP family differs from the destination's while the
\* peer address of SocketInfo is of the destination's family, serve (v1 and
\* v2) returns the family-mismatch error and writes nothing; it does not fall
\* back to SocketInfo.
C24_NoFallbackOnMismatch ==
    \A c \in ProxyCalls :
        (/\ HasConn(c)
         /\ FwdYieldsAddr(calls[c].ctx)
         /\ IsSome(calls[c].ctx.sock)
         /\ FwdAddr(calls[c].ctx).ip.fam # ConnOf(c).addr.ip.fam
         /\ Unwrap(calls[c].ctx.sock).peer.ip.fam = ConnOf(c).addr.ip.fam)
            => /\ Failed(c)
               /\ ErrorOf(c) =
                    [context |-> << >>,
                     cause |-> IF IsV1
                               THEN "PROXY client (v1): IP version mismatch between src and dest"
                               ELSE "PROXY client (v2): IP version mismatch between src and dest"]
               /\ ConnOf(c).wlog = << >>
               /\ ConnOf(c).holder = "dropped"
               /\ calls[c].writes = 0

C24_Witness ==
    \E c \in ProxyCalls :
        /\ IsV1 /\ Failed(c) /\ HasConn(c)
        /\ FwdYieldsAddr(calls[c].ctx) /\ FwdAddr(calls[c].ctx).ip.fam = "V6"
        /\ IsSome(calls[c].ctx.sock) /\ Unwrap(calls[c].ctx.sock).peer = A4max
        /\ ConnOf(c).addr.ip.fam = "V4"

\* C25: a v2 service configured with the empty payload writes the header a
\* v2 service without payload writes for the same source and destination:
\* the length field counts the address block only (12 or 36) and no byte
\* follows the address block.
C25_EmptyPayload ==
    \A c \in ProxyCalls :
        (~IsV1 /\ HeaderWritten(c) /\ svc.version.payload = Some(<< >>))
            => LET h == ConnOf(c).wlog[1].bytes
                   block == IF ConnOf(c).addr.ip.fam = "V4" THEN 12 ELSE 36
               IN  /\ h = V2Encode(svc.proto, VersionTwo, calls[c].ctx, ConnOf(c).addr).bytes
                   /\ h[15] = 0 /\ h[16] = block
                   /\ Len(h) = 16 + block
                   /\ V2Parse(h).rest = << >>

C25_Witness ==
    \E c \in ProxyCalls :
        /\ ~IsV1 /\ HeaderWritten(c) /\ svc.version.payload = Some(<< >>)
        /\ svc.attached = Some(<< >>)
        /\ ConnOf(c).addr.ip.fam = "V6" /\ Len(ConnOf(c).wlog[1].bytes) = 52

\* the header call c has to write, from its own context and connection and
\* the configuration the service was built with
OwnHeader(c) ==
    IF IsV1 THEN V1Encode(calls[c].ctx, ConnOf(c).addr).bytes
    ELSE V2Encode(svc.proto, [tag |-> "Two", payload |-> svc.attached],
                  calls[c].ctx, ConnOf(c).addr).bytes

\* C26: concurrent serve calls on one shared service do not interfere: a
\* step of a call changes no field of the service and nothing of another
\* call, and under every interleaving each call writes to its own connection
\* the header derived from its own context and connection (a prefix of it
\* when the write fails or is cancelled), the bytes it writes when run alone.
C26_NoInterference ==
    /\ [](\A c \in ProxyCalls :
            /\ calls[c].pc = "write" => calls[c].hdr = OwnHeader(c)
            /\ HeaderWritten(c) => ConnOf(c).wlog = << [by |-> "proxy", bytes |-> OwnHeader(c)] >>
            /\ (HasConn(c) /\ ~HeaderWritten(c))
                  => /\ Len(BytesOn(c)) <= Len(OwnHeader(c))
                     /\ BytesOn(c) = SubSeq(OwnHeader(c), 1, Len(BytesOn(c))))
    /\ [][/\ calls' # calls => svc' = svc
          /\ \A c1, c2 \in DOMAIN calls :
                (c1 # c2 /\ calls'[c1] # calls[c1]) => calls'[c2] = calls[c2]]_vars

C26_Witness ==
    /\ svc.kind = "haproxy" /\ svc.version.payload = Some(<< 42, 255 >>)
    /\ calls[1].pc = "write" /\ calls[2].pc = "done"
    /\ HeaderWritten(2)
    /\ ConnOf(1).addr.ip.fam # ConnOf(2).addr.ip.fam
    /\ calls[1].hdr # ConnOf(2).wlog[1].bytes

\* the call failed for want of a source address
MissingSourceFailure(c) ==
    Failed(c) /\ ErrorOf(c).context = << >> /\ ErrorOf(c).cause \in MissingSrcMessages
\* the call failed on the family check
MismatchFailure(c) ==
    /\ Failed(c) /\ ErrorOf(c).context = << >>
    /\ ErrorOf(c).cause \in { "PROXY client (v1): IP version mismatch between src and dest",
                              "PROXY client (v2): IP version mismatch between src and dest" }

\* C27: the source is resolved from the context the inner service returned,
\* not from the one serve was called with: what the inner service inserted,
\* replaced or removed of Forwarded and SocketInfo decides the encoded source
\* and the missing-source error, whatever the caller's context held.
C27_SourceFromReturnedCtx ==
    \A c \in ProxyCalls :
        HasConn(c)
            => /\ MissingSourceFailure(c) <=> ~HasSource(calls[c].ctx)
               /\ ~HasSource(calls[c].ctx) => ConnOf(c).wlog = << >>
               /\ calls[c].pc = "write"
                    => calls[c].hdr = Encode(calls[c].ctx, ConnOf(c).addr).bytes
               /\ HeaderWritten(c) => WrittenSrc(c) = SourceOf(calls[c].ctx)

\* the inner service replaced the source: the header carries the new one
C27_Witness ==
    \E c \in ProxyCalls :
        /\ HeaderWritten(c)
        /\ HasSource(calls[c].in_ctx) /\ HasSource(calls[c].ctx)
        /\ SourceOf(calls[c].in_ctx) # SourceOf(calls[c].ctx)
        /\ WrittenSrc(c) = SourceOf(calls[c].ctx)

\* C28: the source is resolved and the families are compared only after the
\* inner service has returned: a call starts with the one invocation of the
\* inner service and has no result while it is awaited, and a call that
\* fails for a missing source or a family mismatch, whatever the caller's
\* context held, has invoked the inner service once, got its connection, and
\* dropped it.
C28_ChecksAfterInner ==
    /\ [](\A c \in ProxyCalls :
            /\ calls[c].pc = "inner"
                  => calls[c].result = None /\ calls[c].innerCalls = 1 /\ ~HasConn(c)
            /\ (MissingSourceFailure(c) \/ MismatchFailure(c))
                  => /\ calls[c].innerCalls = 1
                     /\ HasConn(c)
                     /\ ConnOf(c).holder = "dropped"
                     /\ ~IsSome(calls[c].innerErr))
    /\ [][\A c \in DOMAIN calls :
            (svc.kind = "haproxy" /\ calls[c].pc = "idle" /\ calls'[c].pc # "idle")
                => calls'[c].pc = "inner"]_vars

C28_Witness ==
    \E c \in ProxyCalls :
        /\ ~HasSource(calls[c].in_ctx) /\ ~HasSource(calls[c].ctx)
        /\ MissingSourceFailure(c)
        /\ calls[c].innerCalls = 1 /\ HasConn(c) /\ ConnOf(c).holder = "dropped"

\* the GET requests that have been answered
AnsweredGets ==
    { r \in RequestIds : fp.requests[r].pc = "done"
                         /\ fp.requests[r].endpoint \in GetEndpoints }
\* the POST requests whose number is fixed
ParsedPosts ==
    { r \in RequestIds : fp.requests[r].pc \in { "request_info", "done" }
                         /\ fp.requests[r].endpoint \in PostEndpoints }
\* what the claim says a POST returns for a path segment
ClaimedPostNumber(t) ==
    IF t = << 55 >> THEN 7 ELSE IF t = << 49, 50 >> THEN 12 ELSE 0

\* C29: however the calls of get_api_fetch_number and
\* get_api_xml_http_request_number on one State interleave, each returns a
\* number of its own, the counter value before its increment, and the counter
\* grows by one per call, no update lost; the POST variants never change the
\* counter and return the number of the path, 0 when it cannot be parsed.
C29_Counter ==
    /\ [](/\ fp.counter = Cardinality(AnsweredGets)
          /\ \A r1, r2 \in AnsweredGets :
                r1 # r2 => fp.requests[r1].number # fp.requests[r2].number
          /\ { Unwrap(fp.requests[r].number) : r \in AnsweredGets }
                = 0..(fp.counter - 1)
          /\ \A r \in ParsedPosts :
                fp.requests[r].number = Some(ClaimedPostNumber(fp.requests[r].path)))
    /\ [][\A r \in RequestIds :
            fp.requests[r] # fp'.requests[r]
                => IF fp'.requests[r].pc = "done" /\ fp.requests[r].endpoint \in GetEndpoints
                   THEN /\ fp'.counter = fp.counter + 1
                        /\ fp'.requests[r].number = Some(fp.counter)
                   ELSE fp'.counter = fp.counter]_vars

\* two GET calls of different endpoints were answered in the order opposite
\* to their ids, and a POST with an unparsable path was answered
C29_Witness ==
    /\ \E r1, r2 \in AnsweredGets :
          /\ fp.requests[r1].endpoint # fp.requests[r2].endpoint
          /\ fp.requests[r1].number = Some(1) /\ fp.requests[r2].number = Some(0)
          /\ r1 < r2
    /\ \E r \in ParsedPosts :
          /\ fp.requests[r].pc = "done" /\ fp.requests[r].number = Some(0)
          /\ fp.requests[r].path = << 120 >>
    /\ fp.counter = 2

====
